---------------------------- MODULE Spec2Model ----------------------------
(***************************************************************************)
(* A model of the hm-lexer crate: CharStream (src/hm-lexer/src/            *)
(* charstream.rs), a byte cursor with 1-based line/column bookkeeping, and *)
(* Lexer (src/hm-lexer/src/lexer.rs and src/hm-lexer/src/lexer/*.rs), the  *)
(* tokenizer built on it.                                                  *)
(*                                                                         *)
(* Bytes are their ASCII codes, so the byte classes of the source          *)
(* (b'0'..=b'9', b'a'..=b'z', ...) are integer ranges here too.            *)
(*                                                                         *)
(* lexer.rs holds next_token with the operator, delimiter and number arms  *)
(* written inline; lexer/operators.rs, lexer/delimiters.rs,                *)
(* lexer/parsing.rs, lexer/trivia.rs and lexer/token_builder.rs are the    *)
(* same arms after they were moved out into functions (and extended: `->`  *)
(* in lex_minus, the `u` suffix in lex_number).  The model follows         *)
(* next_token's control flow from lexer.rs and takes each arm from the     *)
(* function it was moved to.                                               *)
(***************************************************************************)
EXTENDS Integers, Sequences, FiniteSets, TLC

VARIABLES
    input,      \* CharStream.input: the owned byte buffer
    index,      \* CharStream.index: 0-based offset of the next byte
    line,       \* CharStream.line: 1-based
    column,     \* CharStream.column: 1-based
    pc,         \* "input": nothing built yet; "stream": a CharStream exists;
                \* "lexer": the CharStream was moved into a Lexer;
                \* "failed": construction returned Err
    op,         \* the last operation called
    arg,        \* its argument (<<>> when it has none)
    ret,        \* what a cursor operation or a constructor returned
    result,     \* what the last next_token call returned
    prev,       \* the stream state before the last operation
    token_start, \* the start position the last next_token call captured
    consumed,   \* skipped trivia and lexemes of the tokens returned so far
    clean,      \* no next_token call has returned an error so far
    calls       \* next_token calls made before one returned Eof or an error

vars ==
    <<input, index, line, column, pc, op, arg, ret, result, prev, token_start,
      consumed, clean, calls>>

---------------------------------------------------------------------------
(* Bytes *)

TAB == 9
LF == 10
CR == 13
SPACE == 32
BANG == 33
DQUOTE == 34
PERCENT == 37
AMP == 38
SQUOTE == 39
LPAREN == 40
RPAREN == 41
STAR == 42
PLUS == 43
COMMA == 44
MINUS == 45
DOT == 46
SLASH == 47
DIGIT_0 == 48
DIGIT_9 == 57
COLON == 58
SEMICOLON == 59
LESS == 60
EQUALS == 61
GREATER == 62
QUESTION == 63
UPPER_A == 65
UPPER_Z == 90
LBRACKET == 91
BACKSLASH == 92
RBRACKET == 93
CARET == 94
UNDERSCORE == 95
LOWER_A == 97
LOWER_N == 110
LOWER_R == 114
LOWER_T == 116
LOWER_U == 117
LOWER_Z == 122
LBRACE == 123
PIPE == 124
RBRACE == 125
TILDE == 126
NUL == 0

\* Option<T>: None is the empty tuple, Some(x) the one-element tuple.
None == <<>>
Some(x) == <<x>>

\* `let v = ...; body`: the value is computed once and named in the body.
With(v, F(_)) == F(v)

\* The predicates handed to consume_while / skip_while, as the sets of bytes
\* they accept.
IsWhitespace == {SPACE, TAB, CR, LF}
IsDigit == DIGIT_0..DIGIT_9
IsIdentStart == (LOWER_A..LOWER_Z) \cup (UPPER_A..UPPER_Z) \cup {UNDERSCORE}
IsIdentByte == IsIdentStart \cup IsDigit

---------------------------------------------------------------------------
(* CharStream.  A stream state is a record [index, line, column]; the      *)
(* buffer is the variable input, which no operation changes.               *)

Stream(i, l, c) == [index |-> i, line |-> l, column |-> c]

StreamNew == Stream(0, 1, 1)

is_eof(s) == s.index >= Len(input)

\* usize is modelled as a word whose largest value is WordMax.
WordMax == 255

\* an addition that wraps around the machine word
checked_add_wrapping(a, b) == Some((a + b) % (WordMax + 1))

checked_add(a, b) == IF a + b > WordMax THEN None ELSE Some(a + b)

peek_n(s, n) ==
    LET idx == checked_add(s.index, n)
    IN  IF idx = None THEN None
        ELSE IF idx[1] < Len(input) THEN Some(input[idx[1] + 1]) ELSE None

peek(s) == peek_n(s, 0)

\* advance that counts a line feed as one more column of the same line
advance_keep_column(s) ==
    IF is_eof(s) THEN [s |-> s, ret |-> None]
    ELSE LET b == input[s.index + 1]
         IN  [s |-> IF b = LF
                    THEN Stream(s.index + 1, s.line + 1, s.column + 1)
                    ELSE Stream(s.index + 1, s.line, s.column + 1),
              ret |-> Some(b)]

\* advance that counts a column before it looks for the end of the input
advance_counts_at_eof(s) ==
    IF is_eof(s) THEN [s |-> Stream(s.index, s.line, s.column + 1), ret |-> None]
    ELSE LET b == input[s.index + 1]
         IN  [s |-> IF b = LF
                    THEN Stream(s.index + 1, s.line + 1, 1)
                    ELSE Stream(s.index + 1, s.line, s.column + 1),
              ret |-> Some(b)]

\* advance that resets the column at a line feed without counting the line
advance_line_unchanged(s) ==
    IF is_eof(s) THEN [s |-> s, ret |-> None]
    ELSE LET b == input[s.index + 1]
         IN  [s |-> IF b = LF
                    THEN Stream(s.index + 1, s.line, 1)
                    ELSE Stream(s.index + 1, s.line, s.column + 1),
              ret |-> Some(b)]

\* advance: the stream after the call (.s) and the returned Option<u8> (.ret)
advance(s) ==
    IF is_eof(s) THEN [s |-> s, ret |-> None]
    ELSE LET b == input[s.index + 1]
         IN  [s |-> IF b = LF
                    THEN Stream(s.index + 1, s.line + 1, 1)
                    ELSE Stream(s.index + 1, s.line, s.column + 1),
              ret |-> Some(b)]

\* advance_n as index arithmetic: n more bytes and n more columns
advance_n_index_only(s, n) ==
    With(IF s.index + n <= Len(input) THEN n ELSE Len(input) - s.index,
         LAMBDA k : Stream(s.index + k, s.line, s.column + k))

RECURSIVE advance_n(_, _)
advance_n(s, n) ==
    IF n = 0 \/ is_eof(s) THEN s ELSE advance_n(advance(s).s, n - 1)

\* match_byte that consumes the byte whether or not it matches
match_byte_always_advances(s, expected) ==
    [s |-> advance(s).s, ret |-> peek(s) = Some(expected)]

match_byte(s, expected) ==
    IF peek(s) = Some(expected)
    THEN [s |-> advance(s).s, ret |-> TRUE]
    ELSE [s |-> s, ret |-> FALSE]

slice(start, end) == SubSeq(input, start + 1, end)

RECURSIVE skip_while(_, _)
skip_while(s, f) ==
    IF peek(s) # None /\ peek(s)[1] \in f
    THEN skip_while(advance(s).s, f)
    ELSE s

\* consume_while that tests the byte after consuming it
consume_while_through(s, f) ==
    With(advance(skip_while(s, f)).s, LAMBDA t : [s |-> t, ret |-> <<s.index, t.index>>])

consume_while(s, f) ==
    With(skip_while(s, f), LAMBDA t : [s |-> t, ret |-> <<s.index, t.index>>])

skip_whitespace(s) == skip_while(s, IsWhitespace)

current_position(s) == <<s.index, s.line, s.column>>

---------------------------------------------------------------------------
(* Token model: Span, Token, TokenKind, LexError *)

Span(startpos, endpos) ==
    [start |-> startpos[1], end |-> endpos[1],
     line_start |-> startpos[2], column_start |-> startpos[3],
     line_end |-> endpos[2], column_end |-> endpos[3]]

\* A TokenKind: its category, its variant and the value a literal or an
\* identifier carries (<<>> when the variant carries none).
Kind(cat, name) == [cat |-> cat, name |-> name, value |-> <<>>]
KindV(cat, name, value) == [cat |-> cat, name |-> name, value |-> value]

Token(kind, span, lexeme) ==
    [tag |-> "Ok", kind |-> kind, span |-> span, lexeme |-> lexeme]

\* A LexError: text is the offending character, escape sequence or lexeme.
LexError(err, text, l, c) ==
    [tag |-> "Err", err |-> err, text |-> text, line |-> l, column |-> c]

EmptyInput == [tag |-> "Err", err |-> "EmptyInput"]

\* No Result: nothing was returned (yet).
NoResult == [tag |-> "None"]

\* TokenKind::keyword: the keyword table, text (as bytes) to variant.
KeywordTable ==
    {
      <<<<102, 117, 110, 99>>, "Func">>,   \* "func"
      <<<<114, 101, 116, 117, 114, 110>>, "Return">>,   \* "return"
      <<<<105, 102>>, "If">>,   \* "if"
      <<<<101, 108, 115, 101>>, "Else">>,   \* "else"
      <<<<101, 108, 105, 102>>, "Elif">>,   \* "elif"
      <<<<108, 111, 111, 112>>, "Loop">>,   \* "loop"
      <<<<115, 119, 105, 116, 99, 104>>, "Switch">>,   \* "switch"
      <<<<99, 97, 115, 101>>, "Case">>,   \* "case"
      <<<<118, 97, 114>>, "Var">>,   \* "var"
      <<<<99, 111, 110, 115, 116>>, "Const">>,   \* "const"
      <<<<102, 105, 110, 97, 108>>, "Final">>,   \* "final"
      <<<<105, 110, 116, 56>>, "Int8">>,   \* "int8"
      <<<<105, 110, 116, 49, 54>>, "Int16">>,   \* "int16"
      <<<<105, 110, 116, 51, 50>>, "Int32">>,   \* "int32"
      <<<<105, 110, 116, 54, 52>>, "Int64">>,   \* "int64"
      <<<<117, 110, 115, 105, 103, 110, 101, 100, 56>>, "Unsigned8">>,   \* "unsigned8"
      <<<<117, 110, 115, 105, 103, 110, 101, 100, 49, 54>>, "Unsigned16">>,   \* "unsigned16"
      <<<<117, 110, 115, 105, 103, 110, 101, 100, 51, 50>>, "Unsigned32">>,   \* "unsigned32"
      <<<<117, 110, 115, 105, 103, 110, 101, 100, 54, 52>>, "Unsigned64">>,   \* "unsigned64"
      <<<<102, 108, 111, 97, 116>>, "Float">>,   \* "float"
      <<<<100, 111, 117, 98, 108, 101>>, "Double">>,   \* "double"
      <<<<115, 116, 114, 105, 110, 103>>, "String">>,   \* "string"
      <<<<99, 104, 97, 114, 97, 99, 116, 101, 114>>, "Character">>,   \* "character"
      <<<<115, 116, 114, 117, 99, 116>>, "Struct">>,   \* "struct"
      <<<<118, 111, 105, 100>>, "Void">>    \* "void"
    }

\* a keyword table that also knows `u32`
keyword_with_u32(s) ==
    IF s = <<117, 51, 50>> THEN Some(Kind("Keyword", "Unsigned32"))
    ELSE IF \E e \in KeywordTable : e[1] = s
    THEN Some(Kind("Keyword", (CHOOSE e \in KeywordTable : e[1] = s)[2]))
    ELSE None

keyword(s) ==
    IF \E e \in KeywordTable : e[1] = s
    THEN Some(Kind("Keyword", (CHOOSE e \in KeywordTable : e[1] = s)[2]))
    ELSE None

---------------------------------------------------------------------------
(* Text conversions *)

\* U+FFFD in UTF-8, what from_utf8_lossy writes for an invalid sequence.
REPLACEMENT == <<239, 191, 189>>

Cont(b) == b \in 128..191

\* The first chunk of a non-empty byte string: <<n, valid>>, n bytes that are
\* one UTF-8 scalar (valid) or one maximal invalid sequence (not valid).
utf8_chunk(bs) ==
    LET n == Len(bs)
        b1 == bs[1]
        r2 == CASE b1 = 224 -> 160..191
                [] b1 = 237 -> 128..159
                [] b1 = 240 -> 144..191
                [] b1 = 244 -> 128..143
                [] OTHER -> 128..191
    IN  CASE b1 < 128 -> <<1, TRUE>>
          [] b1 \in 194..223 ->
                IF n >= 2 /\ Cont(bs[2]) THEN <<2, TRUE>> ELSE <<1, FALSE>>
          [] b1 \in 224..239 ->
                IF n >= 2 /\ bs[2] \in r2
                THEN IF n >= 3 /\ Cont(bs[3]) THEN <<3, TRUE>> ELSE <<2, FALSE>>
                ELSE <<1, FALSE>>
          [] b1 \in 240..244 ->
                IF n >= 2 /\ bs[2] \in r2
                THEN IF n >= 3 /\ Cont(bs[3])
                     THEN IF n >= 4 /\ Cont(bs[4]) THEN <<4, TRUE>> ELSE <<3, FALSE>>
                     ELSE <<2, FALSE>>
                ELSE <<1, FALSE>>
          [] OTHER -> <<1, FALSE>>

\* String::from_utf8_lossy(bytes).to_string(), as the String's UTF-8 bytes.
RECURSIVE from_utf8_lossy(_)
from_utf8_lossy(bs) ==
    IF bs = <<>> THEN <<>>
    ELSE With(utf8_chunk(bs), LAMBDA c :
         With(from_utf8_lossy(SubSeq(bs, c[1] + 1, Len(bs))), LAMBDA rest :
             IF c[2] THEN SubSeq(bs, 1, c[1]) \o rest ELSE REPLACEMENT \o rest))

\* a cast that keeps only the low seven bits
as_char_seven_bits(b) == b % 128

\* `b as char`: the char U+00bb, as its code point.
as_char(b) == b

\* A char (below U+0100) written into a String, as UTF-8 bytes.
char_utf8(c) == IF c < 128 THEN <<c>> ELSE <<192 + (c \div 64), 128 + (c % 64)>>

\* Decimal digit strings: str::parse::<i64>, ::<u64> and ::<f64> on the text
\* lex_number hands them.  An integer value is kept as its canonical numeral
\* (digits without leading zeros), so 64-bit ranges are compared exactly.
RECURSIVE strip_zeros(_)
strip_zeros(ds) ==
    IF Len(ds) > 1 /\ ds[1] = DIGIT_0 THEN strip_zeros(Tail(ds)) ELSE ds

RECURSIVE strip_trailing_zeros(_)
strip_trailing_zeros(ds) ==
    IF Len(ds) > 1 /\ ds[Len(ds)] = DIGIT_0
    THEN strip_trailing_zeros(SubSeq(ds, 1, Len(ds) - 1))
    ELSE ds

\* a <= b for canonical numerals
numeral_le(a, b) ==
    \/ Len(a) < Len(b)
    \/ /\ Len(a) = Len(b)
       /\ \/ a = b
          \/ \E i \in 1..Len(a) :
                /\ a[i] < b[i]
                /\ \A j \in 1..(i - 1) : a[j] = b[j]

\* i64::MAX = 9223372036854775807, u64::MAX = 18446744073709551615
I64_MAX == <<57, 50, 50, 51, 51, 55, 50, 48, 51, 54, 56, 53, 52, 55, 55, 53, 56, 48, 55>>
U64_MAX == <<49, 56, 52, 52, 54, 55, 52, 52, 48, 55, 51, 55, 48, 57, 53, 53, 49, 54, 49, 53>>

IsDigits(t) == t # <<>> /\ \A i \in 1..Len(t) : t[i] \in IsDigit

\* an i64 parse that accepts every value a u64 holds
parse_i64_unsigned_range(t) ==
    IF IsDigits(t) /\ numeral_le(strip_zeros(t), U64_MAX)
    THEN Some(strip_zeros(t)) ELSE None

parse_i64(t) ==
    IF IsDigits(t) /\ numeral_le(strip_zeros(t), I64_MAX)
    THEN Some(strip_zeros(t)) ELSE None

parse_u64(t) ==
    IF IsDigits(t) /\ numeral_le(strip_zeros(t), U64_MAX)
    THEN Some(strip_zeros(t)) ELSE None

\* str::parse::<f64> on digits with at most one `.` (and at least one digit).
\* The f64 is kept as the decimal it is rounded from: <<integer part,
\* fraction>> in canonical form.
parse_f64(t) ==
    IF /\ \A k \in 1..Len(t) : t[k] \in IsDigit \cup {DOT}
       /\ Cardinality({k \in 1..Len(t) : t[k] = DOT}) <= 1
       /\ \E k \in 1..Len(t) : t[k] \in IsDigit
    THEN With(IF \E k \in 1..Len(t) : t[k] = DOT
              THEN CHOOSE k \in 1..Len(t) : t[k] = DOT
              ELSE Len(t) + 1,
         LAMBDA d :
            Some(<<strip_zeros(<<DIGIT_0>> \o SubSeq(t, 1, d - 1)),
                   strip_trailing_zeros(SubSeq(t, d + 1, Len(t)) \o <<DIGIT_0>>)>>))
    ELSE None

---------------------------------------------------------------------------
(* Lexer.  Every scan takes the stream state and gives the stream state    *)
(* after it (.s) and the Result<Token, LexError> (.result).                *)

\* a line-comment loop that does not stop at the line feed
RECURSIVE skip_line_comment_past_newline(_)
skip_line_comment_past_newline(s) ==
    IF peek(s) = None THEN s
    ELSE skip_line_comment_past_newline(advance(s).s)

\* a line-comment loop that stops at a quote as it does at a line feed
RECURSIVE skip_line_comment_to_quote(_)
skip_line_comment_to_quote(s) ==
    IF peek(s) \in {None, Some(LF), Some(DQUOTE), Some(SQUOTE)} THEN s
    ELSE skip_line_comment_to_quote(advance(s).s)

\* skip_trivia, the line-comment loop: up to, not including, the next LF.
RECURSIVE skip_line_comment(_)
skip_line_comment(s) ==
    IF peek(s) = None \/ peek(s) = Some(LF) THEN s
    ELSE skip_line_comment(advance(s).s)

\* a block-comment loop that counts nested `/*` and ends on the matching `*/`
RECURSIVE nested_comment(_, _)
nested_comment(s, depth) ==
    IF peek(s) = None THEN s
    ELSE IF peek(s) = Some(STAR) /\ peek_n(s, 1) = Some(SLASH)
         THEN IF depth = 1 THEN advance_n(s, 2)
              ELSE nested_comment(advance_n(s, 2), depth - 1)
    ELSE IF peek(s) = Some(SLASH) /\ peek_n(s, 1) = Some(STAR)
         THEN nested_comment(advance_n(s, 2), depth + 1)
    ELSE nested_comment(advance(s).s, depth)

skip_block_comment_nested(s) == nested_comment(s, 1)

\* a block-comment loop that gives up on a `*` that no `/` follows
RECURSIVE skip_block_comment_stops_on_star(_)
skip_block_comment_stops_on_star(s) ==
    IF peek(s) = None THEN s
    ELSE IF peek(s) = Some(STAR)
         THEN IF peek_n(s, 1) = Some(SLASH) THEN advance_n(s, 2) ELSE s
         ELSE skip_block_comment_stops_on_star(advance(s).s)

\* skip_trivia, the block-comment loop: through the first `*/`, or to the end.
RECURSIVE skip_block_comment(_)
skip_block_comment(s) ==
    IF peek(s) = None THEN s
    ELSE IF peek(s) = Some(STAR) /\ peek_n(s, 1) = Some(SLASH)
         THEN advance_n(s, 2)
         ELSE skip_block_comment(advance(s).s)

\* skip_trivia that takes a `/` alone for the start of a line comment
RECURSIVE skip_trivia_lone_slash(_)
skip_trivia_lone_slash(s) ==
    With(peek(s), LAMBDA b :
        IF b = None THEN s
        ELSE IF b[1] \in {SPACE, TAB, CR, LF} THEN skip_trivia_lone_slash(advance(s).s)
        ELSE IF b[1] = SLASH
             THEN IF peek_n(s, 1) = Some(STAR)
                  THEN skip_trivia_lone_slash(skip_block_comment(advance_n(s, 2)))
                  ELSE skip_trivia_lone_slash(skip_line_comment(advance(s).s))
             ELSE s)

RECURSIVE skip_trivia(_)
skip_trivia(s) ==
    With(peek(s), LAMBDA b :
        IF b = None THEN s
        ELSE IF b[1] \in {SPACE, TAB, CR, LF} THEN skip_trivia(advance(s).s)
        ELSE IF b[1] = SLASH
             THEN IF peek_n(s, 1) = Some(SLASH)
                  THEN skip_trivia(skip_line_comment(advance_n(s, 2)))
                  ELSE IF peek_n(s, 1) = Some(STAR)
                       THEN skip_trivia(skip_block_comment(advance_n(s, 2)))
                       ELSE s
             ELSE s)

\* multi_char_token whose span ends on the byte after the last one consumed
multi_char_token_end_after(s, chars, kind, lexeme) ==
    With(advance_n(s, chars), LAMBDA t :
        [s |-> t,
         result |-> Token(kind,
                          Span(current_position(s), <<t.index + 1, t.line, t.column + 1>>),
                          lexeme)])

\* multi_char_token that consumes one byte whatever `chars` is
multi_char_token_one_byte(s, chars, kind, lexeme) ==
    With(advance_n(s, 1), LAMBDA t :
        [s |-> t,
         result |-> Token(kind, Span(current_position(s), current_position(t)), lexeme)])

\* TokenBuilder::new(stream) followed by multi_char_token(chars, kind, lexeme)
multi_char_token(s, chars, kind, lexeme) ==
    With(advance_n(s, chars), LAMBDA t :
        [s |-> t,
         result |-> Token(kind, Span(current_position(s), current_position(t)), lexeme)])

\* single_char_token that builds the token and leaves the byte unconsumed
single_char_token_unmoved(s, kind, lexeme) ==
    [s |-> s,
     result |-> Token(kind,
                      Span(current_position(s), current_position(advance(s).s)),
                      lexeme)]

single_char_token(s, kind, lexeme) == multi_char_token(s, 1, kind, lexeme)

\* decode_escape! that reports an invalid escape where the backslash is
decode_escape_at_cursor(s, quote, start_line, start_col) ==
    With(advance(s).s, LAMBDA t :
    With(peek(t), LAMBDA b :
    With(advance(t).s, LAMBDA t2 :
        IF b = Some(LOWER_N) THEN [s |-> t2, ok |-> TRUE, ch |-> LF, err |-> NoResult]
        ELSE IF b = Some(LOWER_T) THEN [s |-> t2, ok |-> TRUE, ch |-> TAB, err |-> NoResult]
        ELSE IF b = Some(LOWER_R) THEN [s |-> t2, ok |-> TRUE, ch |-> CR, err |-> NoResult]
        ELSE IF b = Some(DIGIT_0) THEN [s |-> t2, ok |-> TRUE, ch |-> NUL, err |-> NoResult]
        ELSE IF b = Some(BACKSLASH) THEN [s |-> t2, ok |-> TRUE, ch |-> BACKSLASH, err |-> NoResult]
        ELSE IF b = Some(quote) THEN [s |-> t2, ok |-> TRUE, ch |-> as_char(quote), err |-> NoResult]
        ELSE With(IF b # None
                  THEN <<BACKSLASH>> \o char_utf8(as_char(b[1]))
                  ELSE <<BACKSLASH, LPAREN, 69, 79, 70, RPAREN>>,
             LAMBDA seq :
                [s |-> t, ok |-> FALSE, ch |-> NUL,
                 err |-> LexError("InvalidEscape", seq, s.line, s.column)]))))

\* an escape decoder that accepts both quotes whatever the literal
decode_escape_either_quote(s, quote, start_line, start_col) ==
    With(advance(s).s, LAMBDA t :
    With(peek(t), LAMBDA b :
    With(advance(t).s, LAMBDA t2 :
        IF b = Some(LOWER_N) THEN [s |-> t2, ok |-> TRUE, ch |-> LF, err |-> NoResult]
        ELSE IF b = Some(LOWER_T) THEN [s |-> t2, ok |-> TRUE, ch |-> TAB, err |-> NoResult]
        ELSE IF b = Some(LOWER_R) THEN [s |-> t2, ok |-> TRUE, ch |-> CR, err |-> NoResult]
        ELSE IF b = Some(DIGIT_0) THEN [s |-> t2, ok |-> TRUE, ch |-> NUL, err |-> NoResult]
        ELSE IF b = Some(BACKSLASH) THEN [s |-> t2, ok |-> TRUE, ch |-> BACKSLASH, err |-> NoResult]
        ELSE IF b = Some(SQUOTE) \/ b = Some(DQUOTE)
        THEN [s |-> t2, ok |-> TRUE, ch |-> as_char(b[1]), err |-> NoResult]
        ELSE With(IF b # None
                  THEN <<BACKSLASH>> \o char_utf8(as_char(b[1]))
                  ELSE <<BACKSLASH, LPAREN, 69, 79, 70, RPAREN>>,
             LAMBDA seq :
                [s |-> t, ok |-> FALSE, ch |-> NUL,
                 err |-> LexError("InvalidEscape", seq, start_line, start_col)]))))

\* decode_escape!: called with the cursor on the backslash.  Ok(ch) is
\* [ok |-> TRUE, ch |-> ch], Err(e) is [ok |-> FALSE, err |-> e].
decode_escape(s, quote, start_line, start_col) ==
    With(advance(s).s, LAMBDA t :
    With(peek(t), LAMBDA b :
    With(advance(t).s, LAMBDA t2 :
        IF b = Some(LOWER_N) THEN [s |-> t2, ok |-> TRUE, ch |-> LF, err |-> NoResult]
        ELSE IF b = Some(LOWER_T) THEN [s |-> t2, ok |-> TRUE, ch |-> TAB, err |-> NoResult]
        ELSE IF b = Some(LOWER_R) THEN [s |-> t2, ok |-> TRUE, ch |-> CR, err |-> NoResult]
        ELSE IF b = Some(DIGIT_0) THEN [s |-> t2, ok |-> TRUE, ch |-> NUL, err |-> NoResult]
        ELSE IF b = Some(BACKSLASH) THEN [s |-> t2, ok |-> TRUE, ch |-> BACKSLASH, err |-> NoResult]
        ELSE IF b = Some(quote) THEN [s |-> t2, ok |-> TRUE, ch |-> as_char(quote), err |-> NoResult]
        ELSE With(IF b # None
                  THEN <<BACKSLASH>> \o char_utf8(as_char(b[1]))
                  ELSE <<BACKSLASH, LPAREN, 69, 79, 70, RPAREN>>,  \* "\(EOF)"
             LAMBDA seq :
                [s |-> t, ok |-> FALSE, ch |-> NUL,
                 err |-> LexError("InvalidEscape", seq, start_line, start_col)]))))

\* a character literal that takes `''` for an empty literal
lex_character_literal_empty(s) ==
    With(current_position(s), LAMBDA start_pos :
    With(LexError("UnterminatedString", <<>>, start_pos[2], start_pos[3]), LAMBDA unterminated :
    With(advance(s).s, LAMBDA s1 :
    With(peek(s1), LAMBDA b :
        IF b = None THEN [s |-> s1, result |-> unterminated]
        ELSE IF b = Some(SQUOTE)
        THEN With(advance(s1).s, LAMBDA s2 :
                [s |-> s2,
                 result |-> Token(KindV("Literal", "CharacterLiteral", NUL),
                                  Span(start_pos, current_position(s2)),
                                  from_utf8_lossy(slice(start_pos[1], s2.index)))])
        ELSE
        With(IF b = Some(BACKSLASH)
             THEN decode_escape(s1, SQUOTE, start_pos[2], start_pos[3])
             ELSE [s |-> advance(s1).s, ok |-> TRUE, ch |-> as_char(b[1]), err |-> NoResult],
        LAMBDA unit :
        IF ~unit.ok THEN [s |-> unit.s, result |-> unit.err]
        ELSE
        With(match_byte(unit.s, SQUOTE), LAMBDA m :
        IF ~m.ret THEN [s |-> m.s, result |-> unterminated]
        ELSE
        With(current_position(m.s), LAMBDA endp :
        With(from_utf8_lossy(slice(start_pos[1], endp[1])), LAMBDA lexeme :
            [s |-> m.s,
             result |-> Token(KindV("Literal", "CharacterLiteral", unit.ch),
                              Span(start_pos, endp), lexeme)]))))))))

\* a character literal that runs on to the next `'`, as a string would
lex_character_literal_long(s) ==
    With(current_position(s), LAMBDA start_pos :
    With(LexError("UnterminatedString", <<>>, start_pos[2], start_pos[3]), LAMBDA unterminated :
    With(advance(s).s, LAMBDA s1 :
    With(peek(s1), LAMBDA b :
        IF b = None THEN [s |-> s1, result |-> unterminated]
        ELSE
        With(IF b = Some(BACKSLASH)
             THEN decode_escape(s1, SQUOTE, start_pos[2], start_pos[3])
             ELSE [s |-> advance(s1).s, ok |-> TRUE, ch |-> as_char(b[1]), err |-> NoResult],
        LAMBDA unit :
        IF ~unit.ok THEN [s |-> unit.s, result |-> unit.err]
        ELSE
        With(match_byte(skip_while(unit.s, (0..255) \ {SQUOTE}), SQUOTE), LAMBDA m :
        IF ~m.ret THEN [s |-> m.s, result |-> unterminated]
        ELSE
        With(current_position(m.s), LAMBDA endp :
        With(from_utf8_lossy(slice(start_pos[1], endp[1])), LAMBDA lexeme :
            [s |-> m.s,
             result |-> Token(KindV("Literal", "CharacterLiteral", unit.ch),
                              Span(start_pos, endp), lexeme)]))))))))

lex_character_literal(s) ==
    With(current_position(s), LAMBDA start_pos :
    With(LexError("UnterminatedString", <<>>, start_pos[2], start_pos[3]), LAMBDA unterminated :
    With(advance(s).s, LAMBDA s1 :
    With(peek(s1), LAMBDA b :
        IF b = None THEN [s |-> s1, result |-> unterminated]
        ELSE
        \* the one content unit: an escape, or one byte as it stands
        With(IF b = Some(BACKSLASH)
             THEN decode_escape(s1, SQUOTE, start_pos[2], start_pos[3])
             ELSE [s |-> advance(s1).s, ok |-> TRUE, ch |-> as_char(b[1]), err |-> NoResult],
        LAMBDA unit :
        IF ~unit.ok THEN [s |-> unit.s, result |-> unit.err]
        ELSE
        With(match_byte(unit.s, SQUOTE), LAMBDA m :
        IF ~m.ret THEN [s |-> m.s, result |-> unterminated]
        ELSE
        With(current_position(m.s), LAMBDA endp :
        With(from_utf8_lossy(slice(start_pos[1], endp[1])), LAMBDA lexeme :
            [s |-> m.s,
             result |-> Token(KindV("Literal", "CharacterLiteral", unit.ch),
                              Span(start_pos, endp), lexeme)]))))))))

\* a string loop that consumes a raw line feed without pushing it
RECURSIVE string_body_drops_line_feed(_, _, _)
string_body_drops_line_feed(s, decoded, start_pos) ==
    With(peek(s), LAMBDA b :
        IF b = None
        THEN [s |-> s, ok |-> FALSE, decoded |-> decoded,
              err |-> LexError("UnterminatedString", <<>>, start_pos[2], start_pos[3])]
        ELSE IF b = Some(DQUOTE)
        THEN [s |-> advance(s).s, ok |-> TRUE, decoded |-> decoded, err |-> NoResult]
        ELSE IF b = Some(BACKSLASH)
        THEN With(decode_escape(s, DQUOTE, start_pos[2], start_pos[3]), LAMBDA esc :
                 IF ~esc.ok
                 THEN [s |-> esc.s, ok |-> FALSE, decoded |-> decoded, err |-> esc.err]
                 ELSE string_body_drops_line_feed(esc.s, Append(decoded, esc.ch), start_pos))
        ELSE IF b = Some(LF)
        THEN string_body_drops_line_feed(advance(s).s, decoded, start_pos)
        ELSE string_body_drops_line_feed(advance(s).s, Append(decoded, as_char(b[1])),
                                         start_pos))

\* lex_string_literal, the loop after the opening quote: decoded is the String
\* built so far, as the sequence of its chars.
RECURSIVE string_body(_, _, _)
string_body(s, decoded, start_pos) ==
    With(peek(s), LAMBDA b :
        IF b = None
        THEN [s |-> s, ok |-> FALSE, decoded |-> decoded,
              err |-> LexError("UnterminatedString", <<>>, start_pos[2], start_pos[3])]
        ELSE IF b = Some(DQUOTE)
        THEN [s |-> advance(s).s, ok |-> TRUE, decoded |-> decoded, err |-> NoResult]
        ELSE IF b = Some(BACKSLASH)
        THEN With(decode_escape(s, DQUOTE, start_pos[2], start_pos[3]), LAMBDA esc :
                 IF ~esc.ok
                 THEN [s |-> esc.s, ok |-> FALSE, decoded |-> decoded, err |-> esc.err]
                 ELSE string_body(esc.s, Append(decoded, esc.ch), start_pos))
        ELSE string_body(advance(s).s, Append(decoded, as_char(b[1])), start_pos))

\* lex_string_literal that takes its start position after the opening quote
lex_string_literal_late_start(s) ==
    With(current_position(advance(s).s), LAMBDA start_pos :
    With(string_body(advance(s).s, <<>>, start_pos), LAMBDA body :
        IF ~body.ok THEN [s |-> body.s, result |-> body.err]
        ELSE
        With(current_position(body.s), LAMBDA endp :
        With(from_utf8_lossy(slice(start_pos[1], endp[1])), LAMBDA lexeme :
            [s |-> body.s,
             result |-> Token(KindV("Literal", "StringLiteral", body.decoded),
                              Span(start_pos, endp), lexeme)]))))

\* lex_string_literal that ends its span on the line the literal started on
lex_string_literal_one_line(s) ==
    With(current_position(s), LAMBDA start_pos :
    With(string_body(advance(s).s, <<>>, start_pos), LAMBDA body :
        IF ~body.ok THEN [s |-> body.s, result |-> body.err]
        ELSE
        With(<<body.s.index, start_pos[2], start_pos[3] + (body.s.index - start_pos[1])>>,
        LAMBDA endp :
        With(from_utf8_lossy(slice(start_pos[1], endp[1])), LAMBDA lexeme :
            [s |-> body.s,
             result |-> Token(KindV("Literal", "StringLiteral", body.decoded),
                              Span(start_pos, endp), lexeme)]))))

lex_string_literal(s) ==
    With(current_position(s), LAMBDA start_pos :
    With(string_body(advance(s).s, <<>>, start_pos), LAMBDA body :
        IF ~body.ok THEN [s |-> body.s, result |-> body.err]
        ELSE
        With(current_position(body.s), LAMBDA endp :
        With(from_utf8_lossy(slice(start_pos[1], endp[1])), LAMBDA lexeme :
            [s |-> body.s,
             result |-> Token(KindV("Literal", "StringLiteral", body.decoded),
                              Span(start_pos, endp), lexeme)]))))

\* an identifier scan that stops at a digit
lex_identifier_or_keyword_letters(s) ==
    With(current_position(s), LAMBDA start_pos :
    With(consume_while(s, IsIdentStart), LAMBDA c :
    With(current_position(c.s), LAMBDA endp :
    With(from_utf8_lossy(slice(c.ret[1], c.ret[2])), LAMBDA lexeme :
    With(keyword(lexeme), LAMBDA kw :
    With(IF kw # None THEN kw[1] ELSE KindV("Identifier", "Identifier", lexeme),
    LAMBDA kind :
        [s |-> c.s, result |-> Token(kind, Span(start_pos, endp), lexeme)]))))))

lex_identifier_or_keyword(s) ==
    With(current_position(s), LAMBDA start_pos :
    With(consume_while(s, IsIdentByte), LAMBDA c :
    With(current_position(c.s), LAMBDA endp :
    With(from_utf8_lossy(slice(c.ret[1], c.ret[2])), LAMBDA lexeme :
    With(keyword(lexeme), LAMBDA kw :
    With(IF kw # None THEN kw[1] ELSE KindV("Identifier", "Identifier", lexeme),
    LAMBDA kind :
        [s |-> c.s, result |-> Token(kind, Span(start_pos, endp), lexeme)]))))))

\* has_fraction without the look at the byte after the `.`
has_fraction_any_dot(s) == peek(s) = Some(DOT)

\* lex_number: is the cursor on a `.` that starts a fraction?
has_fraction(s) ==
    peek(s) = Some(DOT) /\ peek_n(s, 1) # None /\ peek_n(s, 1)[1] \in IsDigit

\* strip_suffix that leaves the `u` in the text to parse
strip_suffix_kept(lexeme) == lexeme

\* lex_number: the text parsed as u64, the lexeme without its `u`
strip_suffix(lexeme) == SubSeq(lexeme, 1, Len(lexeme) - 1)

\* a conflict test that lets a `u` after a fraction pass
suffix_conflict_ignored(is_unsigned, is_float) == FALSE

\* lex_number: a `u` suffix on a number with a fraction
suffix_conflict(is_unsigned, is_float) == is_unsigned /\ is_float

\* lex_number that rejects a number with a letter or `_` right after it
lex_number_word_rejected(s) ==
    With(current_position(s), LAMBDA start_pos :
    With(consume_while(s, IsDigit), LAMBDA c :
    With(has_fraction(c.s), LAMBDA is_float :
    With(IF is_float THEN consume_while(advance(c.s).s, IsDigit).s ELSE c.s, LAMBDA s1 :
    With(peek(s1) = Some(LOWER_U), LAMBDA is_unsigned :
    With(IF is_unsigned /\ ~is_float THEN advance(s1).s ELSE s1, LAMBDA s2 :
    With(current_position(s2), LAMBDA endp :
    With(from_utf8_lossy(slice(c.ret[1], endp[1])), LAMBDA lexeme :
    With(LexError("InvalidNumber", lexeme, start_pos[2], start_pos[3]), LAMBDA invalid :
    With(Span(start_pos, endp), LAMBDA span :
        IF suffix_conflict(is_unsigned, is_float) THEN [s |-> s1, result |-> invalid]
        ELSE IF peek(s2) # None /\ peek(s2)[1] \in IsIdentStart
             THEN [s |-> s2, result |-> invalid]
        ELSE IF is_float
             THEN With(parse_f64(lexeme), LAMBDA f :
                  IF f # None
                  THEN [s |-> s2,
                        result |-> Token(KindV("Literal", "FloatLiteral", f[1]), span, lexeme)]
                  ELSE [s |-> s2, result |-> invalid])
        ELSE IF is_unsigned
             THEN With(parse_u64(strip_suffix(lexeme)), LAMBDA u :
                  IF u # None
                  THEN [s |-> s2,
                        result |-> Token(KindV("Literal", "UnsignedIntLiteral", u[1]),
                                         span, lexeme)]
                  ELSE [s |-> s2, result |-> invalid])
        ELSE With(parse_i64(lexeme), LAMBDA i :
             IF i # None
             THEN [s |-> s2,
                   result |-> Token(KindV("Literal", "IntLiteral", i[1]), span, lexeme)]
             ELSE [s |-> s2, result |-> invalid])))))))))))

lex_number(s) ==
    With(current_position(s), LAMBDA start_pos :
    With(consume_while(s, IsDigit), LAMBDA c :
    With(has_fraction(c.s), LAMBDA is_float :
    With(IF is_float THEN consume_while(advance(c.s).s, IsDigit).s ELSE c.s, LAMBDA s1 :
    With(peek(s1) = Some(LOWER_U), LAMBDA is_unsigned :
    With(IF is_unsigned /\ ~is_float THEN advance(s1).s ELSE s1, LAMBDA s2 :
    With(current_position(s2), LAMBDA endp :
    With(from_utf8_lossy(slice(c.ret[1], endp[1])), LAMBDA lexeme :
    With(LexError("InvalidNumber", lexeme, start_pos[2], start_pos[3]), LAMBDA invalid :
    With(Span(start_pos, endp), LAMBDA span :
        IF suffix_conflict(is_unsigned, is_float) THEN [s |-> s1, result |-> invalid]
        ELSE IF is_float
             THEN With(parse_f64(lexeme), LAMBDA f :
                  IF f # None
                  THEN [s |-> s2,
                        result |-> Token(KindV("Literal", "FloatLiteral", f[1]), span, lexeme)]
                  ELSE [s |-> s2, result |-> invalid])
        ELSE IF is_unsigned
             THEN With(parse_u64(strip_suffix(lexeme)), LAMBDA u :
                  IF u # None
                  THEN [s |-> s2,
                        result |-> Token(KindV("Literal", "UnsignedIntLiteral", u[1]),
                                         span, lexeme)]
                  ELSE [s |-> s2, result |-> invalid])
        ELSE With(parse_i64(lexeme), LAMBDA i :
             IF i # None
             THEN [s |-> s2,
                   result |-> Token(KindV("Literal", "IntLiteral", i[1]), span, lexeme)]
             ELSE [s |-> s2, result |-> invalid])))))))))))

DelimiterBytes ==
    {LPAREN, RPAREN, LBRACE, RBRACE, LBRACKET, RBRACKET, SEMICOLON, COMMA, DOT, QUESTION}

lex_delimiter(s, byte) ==
    LET d(name) == Kind("Delimiter", name)
    IN  CASE byte = LPAREN -> single_char_token(s, d("LeftParen"), <<LPAREN>>)
          [] byte = RPAREN -> single_char_token(s, d("RightParen"), <<RPAREN>>)
          [] byte = LBRACE -> single_char_token(s, d("LeftBrace"), <<LBRACE>>)
          [] byte = RBRACE -> single_char_token(s, d("RightBrace"), <<RBRACE>>)
          [] byte = LBRACKET -> single_char_token(s, d("LeftBracket"), <<LBRACKET>>)
          [] byte = RBRACKET -> single_char_token(s, d("RightBracket"), <<RBRACKET>>)
          [] byte = SEMICOLON -> single_char_token(s, d("Semicolon"), <<SEMICOLON>>)
          [] byte = COMMA -> single_char_token(s, d("Comma"), <<COMMA>>)
          [] byte = DOT -> single_char_token(s, d("Dot"), <<DOT>>)
          [] byte = QUESTION -> single_char_token(s, d("QuestionMark"), <<QUESTION>>)

\* the `:` arm without the `::` case
lex_colon_single(s) == single_char_token(s, Kind("Delimiter", "Colon"), <<COLON>>)

\* `:` or `::`
lex_colon(s) ==
    LET is_scope == peek_n(s, 1) = Some(COLON)
    IN  IF is_scope
        THEN multi_char_token(s, 2, Kind("SpecialOperator", "ScopingOperator"), <<COLON, COLON>>)
        ELSE single_char_token(s, Kind("Delimiter", "Colon"), <<COLON>>)

\* `=` or `==`
lex_equals(s) ==
    LET next == peek_n(s, 1)
    IN  IF next = Some(EQUALS)
        THEN multi_char_token(s, 2, Kind("RelationalOperator", "Equal"), <<EQUALS, EQUALS>>)
        ELSE single_char_token(s, Kind("AssignmentOperator", "Assign"), <<EQUALS>>)

\* `+` or `+=`
lex_plus(s) ==
    LET next == peek_n(s, 1)
    IN  IF next = Some(EQUALS)
        THEN multi_char_token(s, 2, Kind("AssignmentOperator", "AddAssign"), <<PLUS, EQUALS>>)
        ELSE single_char_token(s, Kind("ArithmeticOperator", "Plus"), <<PLUS>>)

\* the `-` arm without the `->` case
lex_minus_no_arrow(s) ==
    LET next == peek_n(s, 1)
    IN  IF next = Some(EQUALS)
        THEN multi_char_token(s, 2, Kind("AssignmentOperator", "SubtractAssign"), <<MINUS, EQUALS>>)
        ELSE single_char_token(s, Kind("ArithmeticOperator", "Minus"), <<MINUS>>)

\* `-`, `-=` or `->`
lex_minus(s) ==
    LET next == peek_n(s, 1)
    IN  IF next = Some(EQUALS)
        THEN multi_char_token(s, 2, Kind("AssignmentOperator", "SubtractAssign"), <<MINUS, EQUALS>>)
        ELSE IF next = Some(GREATER)
        THEN multi_char_token(s, 2, Kind("SpecialOperator", "PointerAccess"), <<MINUS, GREATER>>)
        ELSE single_char_token(s, Kind("ArithmeticOperator", "Minus"), <<MINUS>>)

\* `*`, `*=` or `**`
lex_asterisk(s) ==
    LET next == peek_n(s, 1)
    IN  IF next = Some(EQUALS)
        THEN multi_char_token(s, 2, Kind("AssignmentOperator", "MultiplyAssign"), <<STAR, EQUALS>>)
        ELSE IF next = Some(STAR)
        THEN multi_char_token(s, 2, Kind("ArithmeticOperator", "Exponent"), <<STAR, STAR>>)
        ELSE single_char_token(s, Kind("ArithmeticOperator", "Asterisk"), <<STAR>>)

\* `/` or `/=`
lex_slash(s) ==
    LET next == peek_n(s, 1)
    IN  IF next = Some(EQUALS)
        THEN multi_char_token(s, 2, Kind("AssignmentOperator", "DivideAssign"), <<SLASH, EQUALS>>)
        ELSE single_char_token(s, Kind("ArithmeticOperator", "Slash"), <<SLASH>>)

\* `%` or `%=`
lex_modulo(s) ==
    LET next == peek_n(s, 1)
    IN  IF next = Some(EQUALS)
        THEN multi_char_token(s, 2, Kind("AssignmentOperator", "ModuloAssign"), <<PERCENT, EQUALS>>)
        ELSE single_char_token(s, Kind("ArithmeticOperator", "Modulo"), <<PERCENT>>)

\* `<`, `<=` or `<<`
lex_less_than(s) ==
    LET next == peek_n(s, 1)
    IN  IF next = Some(EQUALS)
        THEN multi_char_token(s, 2, Kind("RelationalOperator", "LessThanOrEqual"), <<LESS, EQUALS>>)
        ELSE IF next = Some(LESS)
        THEN multi_char_token(s, 2, Kind("BitwiseOperator", "LeftShift"), <<LESS, LESS>>)
        ELSE single_char_token(s, Kind("RelationalOperator", "LessThan"), <<LESS>>)

\* `>`, `>=` or `>>`
lex_greater_than(s) ==
    LET next == peek_n(s, 1)
    IN  IF next = Some(EQUALS)
        THEN multi_char_token(s, 2, Kind("RelationalOperator", "GreaterThanOrEqual"), <<GREATER, EQUALS>>)
        ELSE IF next = Some(GREATER)
        THEN multi_char_token(s, 2, Kind("BitwiseOperator", "RightShift"), <<GREATER, GREATER>>)
        ELSE single_char_token(s, Kind("RelationalOperator", "GreaterThan"), <<GREATER>>)

\* `!` or `!=`
lex_not(s) ==
    LET next == peek_n(s, 1)
    IN  IF next = Some(EQUALS)
        THEN multi_char_token(s, 2, Kind("RelationalOperator", "NotEqual"), <<BANG, EQUALS>>)
        ELSE single_char_token(s, Kind("LogicalOperator", "Not"), <<BANG>>)

\* `&` or `&&`
lex_ampersand(s) ==
    LET next == peek_n(s, 1)
    IN  IF next = Some(AMP)
        THEN multi_char_token(s, 2, Kind("LogicalOperator", "And"), <<AMP, AMP>>)
        ELSE single_char_token(s, Kind("BitwiseOperator", "And"), <<AMP>>)

\* `|` or `||`
lex_pipe(s) ==
    LET next == peek_n(s, 1)
    IN  IF next = Some(PIPE)
        THEN multi_char_token(s, 2, Kind("LogicalOperator", "Or"), <<PIPE, PIPE>>)
        ELSE single_char_token(s, Kind("BitwiseOperator", "Or"), <<PIPE>>)

OperatorBytes ==
    {EQUALS, PLUS, MINUS, STAR, SLASH, PERCENT, LESS, GREATER, BANG, AMP, PIPE, CARET, TILDE}

lex_operator(s, byte) ==
    CASE byte = EQUALS -> lex_equals(s)
      [] byte = PLUS -> lex_plus(s)
      [] byte = MINUS -> lex_minus(s)
      [] byte = STAR -> lex_asterisk(s)
      [] byte = SLASH -> lex_slash(s)
      [] byte = PERCENT -> lex_modulo(s)
      [] byte = LESS -> lex_less_than(s)
      [] byte = GREATER -> lex_greater_than(s)
      [] byte = BANG -> lex_not(s)
      [] byte = AMP -> lex_ampersand(s)
      [] byte = PIPE -> lex_pipe(s)
      [] byte = CARET -> single_char_token(s, Kind("BitwiseOperator", "Xor"), <<CARET>>)
      [] byte = TILDE -> single_char_token(s, Kind("BitwiseOperator", "Not"), <<TILDE>>)

\* an Eof token that spans one byte past the cursor
EofToken_one_byte(start_pos) ==
    Token(Kind("Eof", "Eof"),
          Span(start_pos, <<start_pos[1] + 1, start_pos[2], start_pos[3] + 1>>), <<>>)

\* next_token at end of input: Ok(Token { kind: Eof, .. })
EofToken(start_pos) == Token(Kind("Eof", "Eof"), Span(start_pos, start_pos), <<>>)

\* next_token, the match on the byte at the token start
\* dispatch that steps over a byte it cannot use
dispatch_skips_unknown(t, start, byte) ==
    CASE byte = SQUOTE -> lex_character_literal(t)
      [] byte = DQUOTE -> lex_string_literal(t)
      [] byte \in IsIdentStart -> lex_identifier_or_keyword(t)
      [] byte \in IsDigit -> lex_number(t)
      [] byte \in DelimiterBytes -> lex_delimiter(t, byte)
      [] byte = COLON -> lex_colon(t)
      [] byte \in OperatorBytes -> lex_operator(t, byte)
      [] OTHER ->
            [s |-> advance(t).s,
             result |-> LexError("UnexpectedCharacter", <<as_char(byte)>>,
                                 start[2], start[3])]

dispatch(t, start, byte) ==
    CASE byte = SQUOTE -> lex_character_literal(t)
      [] byte = DQUOTE -> lex_string_literal(t)
      [] byte \in IsIdentStart -> lex_identifier_or_keyword(t)
      [] byte \in IsDigit -> lex_number(t)
      [] byte \in DelimiterBytes -> lex_delimiter(t, byte)
      [] byte = COLON -> lex_colon(t)
      [] byte \in OperatorBytes -> lex_operator(t, byte)
      [] OTHER ->
            [s |-> t,
             result |-> LexError("UnexpectedCharacter", <<as_char(byte)>>,
                                 start[2], start[3])]

\* Lexer::next_token from stream state s; .start is the position captured
\* after the trivia skip.
next_token(s) ==
    With(skip_trivia(s), LAMBDA t :
    With(current_position(t), LAMBDA start_pos :
    With(IF is_eof(t) THEN [s |-> t, result |-> EofToken(start_pos)]
         ELSE dispatch(t, start_pos, peek(t)[1]),
    LAMBDA r : [s |-> r.s, result |-> r.result, start |-> start_pos])))

---------------------------------------------------------------------------
(* The state machine *)

Cur == Stream(index, line, column)

\* new without the is_empty check
new_unchecked(bytes) == [tag |-> "Ok", stream |-> StreamNew]

\* CharStream::new
new(bytes) == IF bytes = <<>> THEN EmptyInput ELSE [tag |-> "Ok", stream |-> StreamNew]

\* CharStream::from_bytes: bytes.to_vec(), then new
from_bytes(bytes) == new(bytes)

\* str::as_bytes: a text is kept as its UTF-8 bytes
as_bytes(text) == text

\* <CharStream as FromStr>::from_str
from_str(text) == from_bytes(as_bytes(text))

\* A &str holds valid UTF-8 only.
IsUtf8(bs) == from_utf8_lossy(bs) = bs

Construct(o, r) ==
    /\ pc = "input"
    /\ op' = o /\ arg' = <<>> /\ ret' = r /\ prev' = Cur
    /\ IF r.tag = "Ok"
       THEN /\ pc' = "stream"
            /\ index' = r.stream.index
            /\ line' = r.stream.line
            /\ column' = r.stream.column
       ELSE /\ pc' = "failed"
            /\ UNCHANGED <<index, line, column>>
    /\ UNCHANGED <<input, result, token_start, consumed, clean, calls>>

New == Construct("new", new(input))

FromBytes == Construct("from_bytes", from_bytes(input))

FromStr == IsUtf8(input) /\ Construct("from_str", from_str(input))

\* A call of a cursor operation on the CharStream: s2 is the stream after it.
Call(o, a, s2, r) ==
    /\ pc = "stream"
    /\ index' = s2.index /\ line' = s2.line /\ column' = s2.column
    /\ op' = o /\ arg' = a /\ ret' = r /\ prev' = Cur
    /\ UNCHANGED <<input, pc, result, token_start, consumed, clean, calls>>

\* Arguments the calls are tried with
MaxN == 2
PeekArgs == (0..MaxN) \cup {WordMax - 1, WordMax}
ByteArgs == {LF, SPACE, LOWER_A, DIGIT_0}
Predicates == {IsWhitespace, IsDigit, IsIdentByte}

Peek == Call("peek", <<>>, Cur, peek(Cur))

PeekN == \E n \in PeekArgs : Call("peek_n", <<n>>, Cur, peek_n(Cur, n))

Advance == Call("advance", <<>>, advance(Cur).s, advance(Cur).ret)

AdvanceN == \E n \in 0..MaxN : Call("advance_n", <<n>>, advance_n(Cur, n), <<>>)

MatchByte ==
    \E b \in ByteArgs :
        Call("match_byte", <<b>>, match_byte(Cur, b).s, match_byte(Cur, b).ret)

ConsumeWhile ==
    \E f \in Predicates :
        Call("consume_while", <<f>>, consume_while(Cur, f).s, consume_while(Cur, f).ret)

SkipWhile == \E f \in Predicates : Call("skip_while", <<f>>, skip_while(Cur, f), <<>>)

SkipWhitespace == Call("skip_whitespace", <<>>, skip_whitespace(Cur), <<>>)

CurrentPosition == Call("current_position", <<>>, Cur, current_position(Cur))

IsEof == Call("is_eof", <<>>, Cur, is_eof(Cur))

\* Lexer::new(stream): the stream is moved into the lexer.
LexerNew ==
    /\ pc = "stream"
    /\ pc' = "lexer"
    /\ op' = "Lexer::new" /\ arg' = <<>> /\ ret' = <<>> /\ prev' = Cur
    /\ UNCHANGED <<input, index, line, column, result, token_start, consumed, clean, calls>>

\* lexer.next_token().  consumed gathers what the call skipped as trivia and
\* the lexeme of the token it returned; clean says no call has returned Err.
\* A next_token call has returned Eof or an error: the consumer's loop
\* `call next_token until Eof or an error` is over.
LoopOver ==
    \/ result.tag = "Err"
    \/ result.tag = "Ok" /\ result.kind.name = "Eof"

\* calls after one more next_token call: the calls of the consumer's loop
\* are counted, and the count is kept from running away.
CountCall ==
    IF LoopOver \/ calls > Len(input) + 1 THEN calls ELSE calls + 1

NextToken ==
    /\ pc = "lexer"
    /\ With(next_token(Cur), LAMBDA r :
           /\ index' = r.s.index /\ line' = r.s.line /\ column' = r.s.column
           /\ result' = r.result
           /\ token_start' = r.start
           /\ clean' = (clean /\ r.result.tag = "Ok")
           /\ consumed' = IF r.result.tag = "Ok"
                          THEN consumed \o slice(index, r.result.span.start)
                                        \o r.result.lexeme
                          ELSE consumed)
    /\ calls' = CountCall
    /\ op' = "next_token" /\ arg' = <<>> /\ ret' = <<>> /\ prev' = Cur
    /\ UNCHANGED <<input, pc>>

\* an adaptor that ends on Eof only and goes on after an error
iter_next_past_errors(finished, s) ==
    IF finished
    THEN [finished |-> TRUE, s |-> s, item |-> None, start |-> current_position(s)]
    ELSE With(next_token(s), LAMBDA r :
            [finished |-> (r.result.tag = "Ok" /\ r.result.kind.name = "Eof"),
             s |-> r.s, item |-> Some(r.result), start |-> r.start])

\* <Lexer as Iterator>::next: finished is the adaptor's own flag; item is
\* the Option<Result<Token, LexError>> it yields.
iter_next(finished, s) ==
    IF finished
    THEN [finished |-> TRUE, s |-> s, item |-> None, start |-> current_position(s)]
    ELSE With(next_token(s), LAMBDA r :
            [finished |-> (r.result.tag = "Err" \/ r.result.kind.name = "Eof"),
             s |-> r.s, item |-> Some(r.result), start |-> r.start])

\* `for token in lexer`: the lexer is moved into the loop.
IntoIter ==
    /\ pc = "lexer"
    /\ pc' = "iter"
    /\ op' = "into_iter" /\ arg' = <<>> /\ ret' = <<>> /\ prev' = Cur
    /\ UNCHANGED <<input, index, line, column, result, token_start, consumed, clean, calls>>

\* One turn of the loop: the adaptor's next().  ret is the item yielded.
IterNext ==
    /\ pc \in {"iter", "iter_done"}
    /\ With(iter_next(pc = "iter_done", Cur), LAMBDA r :
           /\ index' = r.s.index /\ line' = r.s.line /\ column' = r.s.column
           /\ ret' = r.item
           /\ pc' = IF r.finished THEN "iter_done" ELSE "iter"
           /\ IF r.item = None
              THEN UNCHANGED <<result, token_start, clean, consumed, calls>>
              ELSE /\ calls' = CountCall
                   /\ result' = r.item[1]
                   /\ token_start' = r.start
                   /\ clean' = (clean /\ r.item[1].tag = "Ok")
                   /\ consumed' = IF r.item[1].tag = "Ok"
                                  THEN consumed \o slice(index, r.item[1].span.start)
                                                \o r.item[1].lexeme
                                  ELSE consumed)
    /\ op' = "next" /\ arg' = <<>> /\ prev' = Cur
    /\ UNCHANGED <<input>>

\* All byte strings over the alphabet A of length <= n
Buffers(A, n) == UNION {[1..k -> A] : k \in 0..n}

InitWith(inputs) ==
    /\ input \in inputs
    /\ index = 0 /\ line = 0 /\ column = 0
    /\ pc = "input"
    /\ op = "none" /\ arg = <<>> /\ ret = <<>>
    /\ result = NoResult
    /\ prev = Stream(0, 0, 0)
    /\ token_start = <<0, 0, 0>>
    /\ consumed = <<>>
    /\ clean = TRUE
    /\ calls = 0

\* Spec: every operation, on short buffers over a small alphabet.
MaxCursorLen == 3
CursorBytes == {LF, SPACE, LOWER_A, DIGIT_0}

Init == InitWith(Buffers(CursorBytes, MaxCursorLen))

Next ==
    \/ New \/ FromBytes \/ FromStr
    \/ Peek \/ PeekN \/ Advance \/ AdvanceN \/ MatchByte
    \/ ConsumeWhile \/ SkipWhile \/ SkipWhitespace \/ CurrentPosition \/ IsEof
    \/ LexerNew \/ NextToken
    \/ IntoIter \/ IterNext

Spec == Init /\ [][Next]_vars

\* The tokenizer alone, on a fresh cursor.
NextLex == FromBytes \/ LexerNew \/ NextToken

\* SpecLex: bytes of every dispatch class.
MaxLen == 3
LexBytes ==
    {SPACE, LF, SLASH, STAR, LOWER_A, LOWER_U, DIGIT_0 + 1, DOT, EQUALS,
     DQUOTE, SQUOTE, BACKSLASH, 64, 255}
    \* 64 is `@`, which no arm of next_token matches; 255 occurs in no UTF-8 text

InitLex == InitWith(Buffers(LexBytes, MaxLen))

SpecLex == InitLex /\ [][NextLex]_vars

\* SpecTrivia: whitespace, comments and what stands between them.
MaxTriviaLen == 5
TriviaBytes == {SPACE, LF, SLASH, STAR, LOWER_A, EQUALS}

\* `/* a /* b */ c */`
NestedExample ==
    <<47, 42, 32, 97, 32, 47, 42, 32, 98, 32, 42, 47, 32, 99, 32, 42, 47>>

\* `// comment`, a line feed, `var`
LineCommentExample ==
    <<47, 47, 32, 99, 111, 109, 109, 101, 110, 116, 10, 118, 97, 114>>

\* The two examples and `/*/**/a`
TriviaExamples ==
    { NestedExample, LineCommentExample, <<47, 42, 47, 42, 42, 47, 97>> }

InitTrivia == InitWith(Buffers(TriviaBytes, MaxTriviaLen) \cup TriviaExamples)

SpecTrivia == InitTrivia /\ [][NextLex]_vars

\* SpecOps: every operator and delimiter byte, in every pair.
MaxOpLen == 2
\* 105 and 102 are `i` and `f`, the keyword `if`.
OpBytes == OperatorBytes \cup DelimiterBytes \cup {COLON, LOWER_A, DIGIT_9, 105, 102}

\* `x::y->z`
ScopeExample == <<120, 58, 58, 121, 45, 62, 122>>

\* The example and `:::`
OpsExamples == { ScopeExample, <<58, 58, 58>> }

InitOps == InitWith(Buffers(OpBytes, MaxOpLen) \cup OpsExamples)

SpecOps == InitOps /\ [][NextLex]_vars

\* SpecBytes: every byte value as the first byte of a token, at the start of
\* the buffer and after a space, a line feed or a letter.
MaxPrefixLen == 1
AllBytes == 0..255
PrefixBytes == {SPACE, LF, LOWER_A}
ByteBuffers ==
    {p \o <<b>> : p \in Buffers(PrefixBytes, MaxPrefixLen), b \in AllBytes}

InitBytes == InitWith(ByteBuffers)

SpecBytes == InitBytes /\ [][NextLex]_vars

\* SpecWords: identifiers and keywords.  105, 102 and 56 are `i`, `f` and
\* `8`, so that `if`, `int8` and their neighbours are among the buffers.
MaxWordLen == 4
WordBytes == {105, 102, LOWER_N, LOWER_T, 56, UNDERSCORE, SPACE}

\* `func main(): u32 { return 2320u; }`
ProgramExample ==
    <<102, 117, 110, 99, 32, 109, 97, 105, 110, 40, 41, 58, 32, 117, 51, 50,
      32, 123, 32, 114, 101, 116, 117, 114, 110, 32, 50, 51, 50, 48, 117, 59,
      32, 125>>

\* `variable`, `return1`, `If` and `RETURN`
NearKeywords ==
    { <<118, 97, 114, 105, 97, 98, 108, 101>>,
      <<114, 101, 116, 117, 114, 110, 49>>,
      <<73, 102>>,
      <<82, 69, 84, 85, 82, 78>> }

\* The example, `u32` and `unsigned32`, and the words close to keywords
WordExamples ==
    { ProgramExample, <<117, 51, 50>>,
      <<117, 110, 115, 105, 103, 110, 101, 100, 51, 50>> } \cup NearKeywords

InitWords == InitWith(Buffers(WordBytes, MaxWordLen) \cup WordExamples)

SpecWords == InitWords /\ [][NextLex]_vars

\* SpecIter: the loop over a lexer, on words, numbers, `=`, strings and a
\* byte that is an error (64 is `@`).
MaxIterLen == 3
IterBytes == {SPACE, LOWER_A, DIGIT_0 + 1, EQUALS, DQUOTE, 64}

InitIter == InitWith(Buffers(IterBytes, MaxIterLen))

NextIter == FromBytes \/ LexerNew \/ NextToken \/ IntoIter \/ IterNext

SpecIter == InitIter /\ [][NextIter]_vars

\* SpecNum: numeric literals and what may follow them.
MaxNumLen == 4
NumBytes == {DIGIT_0, DIGIT_0 + 2, DIGIT_9, DOT, LOWER_U, LOWER_A, SPACE, LF}

\* SpecStr: string and character literals with escapes, over several lines.
\* `n` and `0` are escape letters, `a` is not.
MaxStrLen == 5
StrBytes == {DQUOTE, SQUOTE, BACKSLASH, LOWER_N, DIGIT_0, LOWER_A, LF}

\* Escapes of the byte 0xFF and of `q`, in a string and in a character literal
StrExamples ==
    { <<34, 92, 255, 34>>, <<39, 92, 255, 39>>, <<34, 92, 113, 34>>, <<39, 92, 113, 39>> }

\* `"a\"b"`
EscapedQuoteExample == <<34, 97, 92, 34, 98, 34>>

\* The example, `"\t\r"`, `'\t'` and `'\r'`
EscapeExamples ==
    { EscapedQuoteExample, <<34, 92, 116, 92, 114, 34>>,
      <<39, 92, 116, 39>>, <<39, 92, 114, 39>> }

\* `"`, 0xFF, a line feed, `\n`, `a`, `"`, and `"`, 0x80, `"`
RawByteExamples == { <<34, 255, 10, 92, 110, 97, 34>>, <<34, 128, 34>> }

InitStr ==
    InitWith(Buffers(StrBytes, MaxStrLen) \cup StrExamples \cup EscapeExamples
                \cup RawByteExamples)

SpecStr == InitStr /\ [][NextLex]_vars

\* SpecMix: quotes and comment markers side by side.
MaxMixLen == 5
MixBytes == {DQUOTE, SQUOTE, BACKSLASH, SLASH, STAR, LOWER_A, LF}

\* `"a // b"`
MarkerInStringExample == <<34, 97, 32, 47, 47, 32, 98, 34>>

\* The example, `"/*" a`, `// "` with a line feed and `a`, `/* '\a */`
MixExamples ==
    { MarkerInStringExample, <<34, 47, 42, 34, 32, 97>>,
      <<47, 47, 32, 34, 10, 97>>, <<47, 42, 32, 39, 92, 97, 32, 42, 47>> }

InitMix == InitWith(Buffers(MixBytes, MaxMixLen) \cup MixExamples)

SpecMix == InitMix /\ [][NextLex]_vars

\* Numerals at the edges of the 64-bit ranges: i64::MAX, i64::MAX + 1,
\* u64::MAX, u64::MAX + 1, alone and followed by `.`, `u`, `.a` or `.1`.
I64_MAX_PLUS_1 ==
    <<57, 50, 50, 51, 51, 55, 50, 48, 51, 54, 56, 53, 52, 55, 55, 53, 56, 48, 56>>
U64_MAX_PLUS_1 ==
    <<49, 56, 52, 52, 54, 55, 52, 52, 48, 55, 51, 55, 48, 57, 53, 53, 49, 54, 49, 54>>
LongNumerals ==
    {n \o t : n \in {I64_MAX, I64_MAX_PLUS_1, U64_MAX, U64_MAX_PLUS_1},
              t \in {<<>>, <<DOT>>, <<LOWER_U>>, <<DOT, LOWER_A>>, <<DOT, DIGIT_9>>}}

\* `2320u`, `42.`, `42.foo`, `3.14u`, and `3.14u` on the second line
NumExamples ==
    { <<50, 51, 50, 48, 117>>, <<52, 50, 46>>, <<52, 50, 46, 102, 111, 111>>,
      <<51, 46, 49, 52, 117>>, <<10, 32, 51, 46, 49, 52, 117>> }

\* `123abc`
DigitsThenWordExample == <<49, 50, 51, 97, 98, 99>>

\* `1.2.3`
TwoFractionsExample == <<49, 46, 50, 46, 51>>

\* The two examples, `1.2.3.4`, `1.2u3`, `12uu`, `7if` and i64::MAX + 1
\* followed by `a`
ScanStopExamples ==
    { DigitsThenWordExample, TwoFractionsExample, <<49, 46, 50, 46, 51, 46, 52>>,
      <<49, 46, 50, 117, 51>>, <<49, 50, 117, 117>>, <<55, 105, 102>>,
      I64_MAX_PLUS_1 \o <<LOWER_A>> }

InitNum ==
    InitWith(Buffers(NumBytes, MaxNumLen) \cup LongNumerals \cup NumExamples
                \cup ScanStopExamples)

SpecNum == InitNum /\ [][NextLex]_vars

----------------------------------------------------------------------------
\* Position bookkeeping

\* A cursor exists: the stream was built and not refused.
HasCursor == pc \in {"stream", "lexer"}

\* C1: for every non-empty buffer, after any sequence of cursor operations
\* and next_token calls, 0 <= index <= len, line >= 1 and column >= 1; and
\* whenever the byte last consumed (the one just before the cursor) is a
\* line feed, column is 1.
C1_CursorInvariant ==
    HasCursor =>
        /\ 0 <= index /\ index <= Len(input)
        /\ line >= 1
        /\ column >= 1
        /\ (index > 0 /\ input[index] = LF => column = 1)

\* C1 witness: a next_token call has moved the cursor over a line feed that
\* is not the first byte, onto line 2 or later.
C1_Witness ==
    /\ pc = "lexer" /\ op = "next_token"
    /\ prev.index < index /\ index >= 2 /\ input[index] = LF
    /\ line >= 2 /\ column = 1

----------------------------------------------------------------------------
\* Coverage of the buffer

\* The last step was a next_token call that returned a token.
ReturnedToken == op = "next_token" /\ result.tag = "Ok"

ReturnedEof == ReturnedToken /\ result.kind.name = "Eof"

\* The first k >= from with g[k] = b, or Len(g) + 1.
RECURSIVE FirstByte(_, _, _)
FirstByte(g, from, b) ==
    IF from > Len(g) \/ g[from] = b THEN from ELSE FirstByte(g, from + 1, b)

\* The first k >= from with g[k], g[k + 1] = `*`, `/`, or Len(g) + 1.
RECURSIVE FirstClose(_, _)
FirstClose(g, from) ==
    IF from >= Len(g) THEN Len(g) + 1
    ELSE IF g[from] = STAR /\ g[from + 1] = SLASH THEN from
    ELSE FirstClose(g, from + 1)

\* g[k..] is whitespace, `//` comments up to a line feed or the end, and
\* `/*` comments up to the first `*/` or the end.
RECURSIVE TriviaFrom(_, _)
TriviaFrom(g, k) ==
    IF k > Len(g) THEN TRUE
    ELSE IF g[k] \in {SPACE, TAB, CR, LF} THEN TriviaFrom(g, k + 1)
    ELSE IF g[k] = SLASH /\ k < Len(g) /\ g[k + 1] = SLASH
         THEN TriviaFrom(g, FirstByte(g, k + 2, LF))
    ELSE IF g[k] = SLASH /\ k < Len(g) /\ g[k + 1] = STAR
         THEN TriviaFrom(g, FirstClose(g, k + 2) + 2)
    ELSE FALSE

IsTriviaText(g) == TriviaFrom(g, 1)

\* C2: on a run of next_token calls without an error, the bytes between the
\* cursor before a call and the start of the token it returns are trivia
\* only; the Eof token starts at the buffer's length; and when Eof is
\* returned the skipped trivia and the lexemes, in order, are the buffer.
C2_BufferAccounted ==
    (ReturnedToken /\ clean) =>
        /\ IsTriviaText(slice(prev.index, result.span.start))
        /\ (ReturnedEof => result.span.start = Len(input) /\ consumed = input)

----------------------------------------------------------------------------
\* Spans and lexemes

\* C3: every returned token has span.start <= span.end, and for every kind
\* other than string and character literals its lexeme is the buffer's
\* bytes from span.start to span.end (so the fixed lexemes of operators and
\* delimiters are the bytes consumed).
C3_LexemeIsSlice ==
    ReturnedToken =>
        /\ result.span.start <= result.span.end
        /\ (result.kind.name \notin {"StringLiteral", "CharacterLiteral"}
                => result.lexeme = slice(result.span.start, result.span.end))

\* C3 witness: a two-byte operator was returned whose fixed lexeme `->` is
\* the two bytes of its span.
C3_Witness ==
    /\ ReturnedToken
    /\ result.kind.name = "PointerAccess"
    /\ result.span.end = result.span.start + 2
    /\ result.lexeme = <<MINUS, GREATER>>
    /\ slice(result.span.start, result.span.end) = <<MINUS, GREATER>>

\* C4: when two successive next_token calls both return a token, the later
\* token's span starts at or after the earlier token's span end.
C4_SpansOrdered ==
    [][(ReturnedToken /\ ReturnedToken') => result'.span.start >= result.span.end]_vars

\* C4 witness: a token other than Eof was returned by a call that followed
\* only successful calls, the last of which had consumed bytes, and it
\* starts after trivia.
C4_Witness ==
    /\ ReturnedToken /\ clean
    /\ result.kind.name # "Eof"
    /\ prev.index > 0
    /\ result.span.start > prev.index

----------------------------------------------------------------------------
\* Maximal munch

\* The two-byte operators: first byte, second byte, token kind.
TwoByteOperators ==
    { <<EQUALS, EQUALS, Kind("RelationalOperator", "Equal")>>,
      <<PLUS, EQUALS, Kind("AssignmentOperator", "AddAssign")>>,
      <<MINUS, EQUALS, Kind("AssignmentOperator", "SubtractAssign")>>,
      <<MINUS, GREATER, Kind("SpecialOperator", "PointerAccess")>>,
      <<STAR, EQUALS, Kind("AssignmentOperator", "MultiplyAssign")>>,
      <<STAR, STAR, Kind("ArithmeticOperator", "Exponent")>>,
      <<SLASH, EQUALS, Kind("AssignmentOperator", "DivideAssign")>>,
      <<PERCENT, EQUALS, Kind("AssignmentOperator", "ModuloAssign")>>,
      <<LESS, EQUALS, Kind("RelationalOperator", "LessThanOrEqual")>>,
      <<LESS, LESS, Kind("BitwiseOperator", "LeftShift")>>,
      <<GREATER, EQUALS, Kind("RelationalOperator", "GreaterThanOrEqual")>>,
      <<GREATER, GREATER, Kind("BitwiseOperator", "RightShift")>>,
      <<BANG, EQUALS, Kind("RelationalOperator", "NotEqual")>>,
      <<AMP, AMP, Kind("LogicalOperator", "And")>>,
      <<PIPE, PIPE, Kind("LogicalOperator", "Or")>>,
      <<COLON, COLON, Kind("SpecialOperator", "ScopingOperator")>> }

\* The one-byte tokens on the first bytes of the two-byte operators.
OneByteOperators ==
    { <<EQUALS, Kind("AssignmentOperator", "Assign")>>,
      <<PLUS, Kind("ArithmeticOperator", "Plus")>>,
      <<MINUS, Kind("ArithmeticOperator", "Minus")>>,
      <<STAR, Kind("ArithmeticOperator", "Asterisk")>>,
      <<SLASH, Kind("ArithmeticOperator", "Slash")>>,
      <<PERCENT, Kind("ArithmeticOperator", "Modulo")>>,
      <<LESS, Kind("RelationalOperator", "LessThan")>>,
      <<GREATER, Kind("RelationalOperator", "GreaterThan")>>,
      <<BANG, Kind("LogicalOperator", "Not")>>,
      <<AMP, Kind("BitwiseOperator", "And")>>,
      <<PIPE, Kind("BitwiseOperator", "Or")>>,
      <<COLON, Kind("Delimiter", "Colon")>> }

\* The byte at 0-based offset k of the buffer, or None past its end.
ByteAt(k) == IF k < Len(input) THEN Some(input[k + 1]) ELSE None

\* The last call was next_token and the token start it captured is on byte b.
TokenStartsOn(b) == op = "next_token" /\ ByteAt(token_start[1]) = Some(b)

----------------------------------------------------------------------------
\* End of input

\* After a next_token call: Eof is returned exactly when only trivia is left,
\* and the Eof token is zero-width at the cursor with an empty lexeme.
C6_EofState ==
    /\ (op = "next_token" /\ IsTriviaText(slice(prev.index, Len(input))))
            <=> ReturnedEof
    /\ ReturnedEof =>
            /\ index = Len(input)
            /\ result.span.start = index /\ result.span.end = index
            /\ result.span.line_start = line /\ result.span.line_end = line
            /\ result.span.column_start = column /\ result.span.column_end = column
            /\ result.lexeme = <<>>

\* A next_token call made after Eof was returned changes nothing.
C6_EofStep ==
    (ReturnedEof /\ op' = "next_token") =>
        /\ result' = result
        /\ index' = index /\ line' = line /\ column' = column

\* C6: a next_token call that starts with the cursor at the end of the
\* buffer, or reaches it by skipping trivia, returns an Eof token, and only
\* such a call does; the Eof token is zero-width at the cursor (start = end
\* = index, start line and column = end line and column = the cursor's)
\* with an empty lexeme; and a next_token call made after Eof was returned
\* returns the same Eof token and leaves the cursor where it was.
C6_EofIsFinal == []C6_EofState /\ [][C6_EofStep]_vars

\* C6 witness: Eof was returned by a call that began at the end of a buffer
\* whose last byte is whitespace, so an earlier call skipped that byte and
\* returned Eof, and this is a later call.
C6_Witness ==
    /\ ReturnedEof
    /\ prev = Cur
    /\ index = Len(input) /\ input[index] \in IsWhitespace
    /\ line >= 2

----------------------------------------------------------------------------
\* Construction

\* The last step was a constructor call: new, from_bytes or from_str.
Constructed == op \in {"new", "from_bytes", "from_str"}

\* C8: constructing a CharStream from a zero-length buffer, as bytes or as
\* text, fails with EmptyInput and yields no cursor; constructing it from a
\* non-empty buffer yields a cursor with index 0, line 1 and column 1.
C8_Construction ==
    Constructed =>
        IF Len(input) = 0
        THEN /\ pc = "failed"
             /\ ret.tag = "Err" /\ ret.err = "EmptyInput"
             /\ ~HasCursor
        ELSE /\ pc = "stream"
             /\ ret.tag = "Ok"
             /\ index = 0 /\ line = 1 /\ column = 1

\* C8 witness: from_str on the empty text was refused.
C8_Witness ==
    /\ op = "from_str" /\ input = <<>>
    /\ pc = "failed" /\ ret.tag = "Err"

----------------------------------------------------------------------------
\* Numeric literals

IsDigitAt(k) == k < Len(input) /\ input[k + 1] \in IsDigit

\* The 0-based offset just past the digits that start at offset k.
RECURSIVE DigitRunEnd(_)
DigitRunEnd(k) == IF IsDigitAt(k) THEN DigitRunEnd(k + 1) ELSE k

\* The last call was next_token and its token starts with a digit run.
NumberCall == op = "next_token" /\ IsDigitAt(token_start[1])

RunStart == token_start[1]

RunEnd == DigitRunEnd(token_start[1])

\* The digit run's value, as a numeral without leading zeros.
RunValue == strip_zeros(slice(RunStart, RunEnd))

\* The digit run is followed by `.` and then by no digit.
TrailingDot == NumberCall /\ ByteAt(RunEnd) = Some(DOT) /\ ~IsDigitAt(RunEnd + 1)

\* The digit run is followed by `u`.
SuffixU == NumberCall /\ ByteAt(RunEnd) = Some(LOWER_U)

ReturnedInvalidNumber ==
    op = "next_token" /\ result.tag = "Err" /\ result.err = "InvalidNumber"

\* The token returned is an IntLiteral over exactly the digit run.
IntOverDigits ==
    /\ ReturnedToken
    /\ result.kind.name = "IntLiteral" /\ result.kind.value = RunValue
    /\ result.span.start = RunStart /\ result.span.end = RunEnd
    /\ result.lexeme = slice(RunStart, RunEnd)

\* After a digit run with a trailing `.`: the cursor is on the `.`, no
\* FloatLiteral was produced, and the result is the IntLiteral over the
\* digits when their value fits in i64, InvalidNumber otherwise.
C9_IntState ==
    TrailingDot =>
        /\ index = RunEnd
        /\ ~(ReturnedToken /\ result.kind.name = "FloatLiteral")
        /\ IF numeral_le(RunValue, I64_MAX) THEN IntOverDigits
           ELSE ReturnedInvalidNumber

\* The next_token call after that one returns the Dot token on the `.`.
C9_DotStep ==
    (TrailingDot /\ op' = "next_token") =>
        /\ ReturnedToken'
        /\ result'.kind = Kind("Delimiter", "Dot")
        /\ result'.span.start = RunEnd /\ result'.span.end = RunEnd + 1
        /\ result'.lexeme = <<DOT>>

\* C9 (amended): for a digit run followed by `.` and then a non-digit or the
\* end of input, the `.` is not consumed and no FloatLiteral is produced;
\* next_token returns an IntLiteral whose span covers only the digits when
\* the digits' value is at most i64::MAX, and InvalidNumber otherwise; and
\* the following next_token call returns a separate Dot token.
C9_TrailingDotIsDot == []C9_IntState /\ [][C9_DotStep]_vars

\* C9 as stated: for every digit run followed by `.` and then a non-digit
\* or the end of input, next_token returns an IntLiteral whose span covers
\* only the digits.
C9_AsStated == TrailingDot => IntOverDigits

\* C9 witness: on `42.foo` the second call returned Dot at offset 2, after
\* the first had returned over the digits.
C9_Witness ==
    /\ input = <<52, 50, DOT, 102, 111, 111>>
    /\ ReturnedToken /\ clean
    /\ prev.index = 2
    /\ result.kind.name = "Dot" /\ result.span.start = 2 /\ result.span.end = 3

----------------------------------------------------------------------------
\* Positions, counted from the buffer

\* The 1-based line of the byte at 0-based offset k: one more than the line
\* feeds before it.
LineAt(k) == 1 + Cardinality({j \in 1..k : input[j] = LF})

\* The 1-based column of the byte at 0-based offset k: its distance from the
\* last line feed before it, or from the start of the buffer.
ColumnAt(k) ==
    LET feeds == {j \in 1..k : input[j] = LF}
    IN  IF feeds = {} THEN k + 1
        ELSE k - (CHOOSE j \in feeds : \A i \in feeds : i <= j) + 1

\* The error returned is positioned on the byte at offset k.
ErrorAt(k) == result.line = LineAt(k) /\ result.column = ColumnAt(k)

----------------------------------------------------------------------------
\* Errors in numeric literals

\* The token starts with digits, `.`, digits, and a `u` follows.
FloatThenU ==
    /\ NumberCall
    /\ ByteAt(RunEnd) = Some(DOT) /\ IsDigitAt(RunEnd + 1)
    /\ ByteAt(DigitRunEnd(RunEnd + 1)) = Some(LOWER_U)

C11_State == FloatThenU => ReturnedInvalidNumber /\ ErrorAt(RunStart)

C11_Step ==
    (FloatThenU /\ op' = "next_token") =>
        ~(ReturnedToken' /\ result'.kind.name = "FloatLiteral")

PlainRun ==
    /\ NumberCall
    /\ ByteAt(RunEnd) # Some(LOWER_U)
    /\ ~(ByteAt(RunEnd) = Some(DOT) /\ IsDigitAt(RunEnd + 1))

\* InvalidNumber was returned with this lexeme, at the literal's start.
InvalidNumberWith(lexeme) ==
    ReturnedInvalidNumber /\ result.text = lexeme /\ ErrorAt(RunStart)

----------------------------------------------------------------------------
\* Errors in string and character literals

\* The bytes that may follow a backslash in a literal delimited by quote.
EscapeBytes(quote) == {LOWER_N, LOWER_T, LOWER_R, DIGIT_0, BACKSLASH, quote}

\* From offset k on, inside a literal opened by `"`, the end of the buffer
\* comes before any `"` that is not preceded by a backslash of its own.
RECURSIVE Unclosed(_)
Unclosed(k) ==
    IF k >= Len(input) THEN TRUE
    ELSE IF input[k + 1] = DQUOTE THEN FALSE
    ELSE IF input[k + 1] = BACKSLASH THEN Unclosed(k + 2)
    ELSE Unclosed(k + 1)

\* From offset k up to the closing `"` or the end of the buffer, every
\* backslash is followed by an escape byte.
RECURSIVE EscapesValid(_)
EscapesValid(k) ==
    IF k >= Len(input) THEN TRUE
    ELSE IF input[k + 1] = DQUOTE THEN TRUE
    ELSE IF input[k + 1] = BACKSLASH
         THEN /\ k + 1 < Len(input)
              /\ input[k + 2] \in EscapeBytes(DQUOTE)
              /\ EscapesValid(k + 2)
    ELSE EscapesValid(k + 1)

\* The last call was next_token and its token starts with byte b.
LiteralCall(b) == TokenStartsOn(b)

ReturnedError(e) == op = "next_token" /\ result.tag = "Err" /\ result.err = e

\* C13 (amended): a string literal with no closing unescaped `"` before
\* the end of input, in which every backslash is followed by one of n, t,
\* r, 0, backslash or `"`, makes next_token return UnterminatedString with
\* the line and column of the opening quote, however many bytes and line
\* feeds the literal holds.
C13_UnterminatedString ==
    (LiteralCall(DQUOTE) /\ Unclosed(token_start[1] + 1)
        /\ EscapesValid(token_start[1] + 1))
    => ReturnedError("UnterminatedString") /\ ErrorAt(token_start[1])

\* C13 as stated: every string literal with no closing unescaped `"` before
\* the end of input makes next_token return UnterminatedString at the
\* opening quote.
C13_AsStated ==
    (LiteralCall(DQUOTE) /\ Unclosed(token_start[1] + 1))
    => ReturnedError("UnterminatedString") /\ ErrorAt(token_start[1])

\* C13 witness: a string opened on the second line and running over a line
\* feed to the end of input was reported at the opening quote.
C13_Witness ==
    /\ input = <<LF, LOWER_A, DQUOTE, LF, LOWER_A>>
    /\ ReturnedError("UnterminatedString")
    /\ result.line = 2 /\ result.column = 2
    /\ line = 3

\* Scanning a string literal's content from offset k: the offset of the
\* first backslash that is followed by no escape byte, or -1 when the
\* closing `"` or the end of the buffer comes first.
RECURSIVE FirstBadEscape(_)
FirstBadEscape(k) ==
    IF k >= Len(input) THEN -1
    ELSE IF input[k + 1] = DQUOTE THEN -1
    ELSE IF input[k + 1] = BACKSLASH
         THEN IF k + 1 < Len(input) /\ input[k + 2] \in EscapeBytes(DQUOTE)
              THEN FirstBadEscape(k + 2)
              ELSE k
    ELSE FirstBadEscape(k + 1)

\* The content of a character literal opened at offset t is a backslash
\* followed by no escape byte.
BadCharEscape(t) ==
    /\ ByteAt(t + 1) = Some(BACKSLASH)
    /\ \A b \in EscapeBytes(SQUOTE) : ByteAt(t + 2) # Some(b)

\* The sequence reported for the backslash at offset e: the backslash and the
\* character of the byte after it, or `\(EOF)` when no byte follows.
EscapeText(e) ==
    IF e + 1 < Len(input)
    THEN <<BACKSLASH>> \o char_utf8(input[e + 2])
    ELSE <<BACKSLASH, LPAREN, 69, 79, 70, RPAREN>>

\* InvalidEscape was returned for the backslash at offset e, positioned on
\* the literal's opening quote.
InvalidEscapeFor(e) ==
    /\ ReturnedError("InvalidEscape")
    /\ result.text = EscapeText(e)
    /\ ErrorAt(token_start[1])

----------------------------------------------------------------------------
\* Comments

\* The buffer has `/*` at offset k.
OpensComment(k) == ByteAt(k) = Some(SLASH) /\ ByteAt(k + 1) = Some(STAR)

\* The `/*` at offset k has a `*/` after it.
CommentCloses(k) == FirstClose(input, k + 3) <= Len(input)

\* The offset just past the first `*/` after the `/*` at offset k.
CommentEnd(k) == FirstClose(input, k + 3) + 1

\* From offset k, whitespace and closed comments lead to a `/*` that no
\* `*/` closes.
RECURSIVE ReachesUnclosed(_)
ReachesUnclosed(k) ==
    IF k >= Len(input) THEN FALSE
    ELSE IF input[k + 1] \in {SPACE, TAB, CR, LF} THEN ReachesUnclosed(k + 1)
    ELSE IF ByteAt(k) = Some(SLASH) /\ ByteAt(k + 1) = Some(SLASH)
         THEN ReachesUnclosed(FirstByte(input, k + 3, LF) - 1)
    ELSE IF OpensComment(k)
         THEN IF CommentCloses(k) THEN ReachesUnclosed(CommentEnd(k)) ELSE TRUE
    ELSE FALSE

\* C15: when the trivia before the next token leads to a `/*` with no `*/`
\* before the end of input, next_token raises no error: it consumes every
\* remaining byte and returns Eof with span.start = len(buffer).
C15_UnterminatedComment ==
    (op = "next_token" /\ ReachesUnclosed(prev.index)) =>
        /\ ReturnedEof
        /\ result.span.start = Len(input)
        /\ index = Len(input)

\* C15 witness: after the token `a`, the unclosed comment `/* *` was
\* consumed and Eof returned at offset 5.
C15_Witness ==
    /\ input = <<LOWER_A, SLASH, STAR, SPACE, STAR>>
    /\ prev.index = 1
    /\ ReturnedEof /\ clean
    /\ result.span.start = 5 /\ index = 5

\* A call that began on a closed `/*` comment.
BeganOnComment ==
    op = "next_token" /\ OpensComment(prev.index) /\ CommentCloses(prev.index)

\* What each call on `/* a /* b */ c */` returns, by the offset it began at.
NestedExampleTokens ==
    (input = NestedExample /\ op = "next_token") =>
        /\ ReturnedToken
        /\ prev.index = 0 =>
                /\ result.kind.name = "Identifier" /\ result.lexeme = <<99>>
                /\ result.span.start = 13 /\ result.span.end = 14
        /\ prev.index = 14 =>
                /\ result.kind = Kind("ArithmeticOperator", "Asterisk")
                /\ result.span.start = 15 /\ result.span.end = 16
        /\ prev.index = 16 =>
                /\ result.kind = Kind("ArithmeticOperator", "Slash")
                /\ result.span.start = 16 /\ result.span.end = 17
        /\ prev.index = 17 => ReturnedEof
        /\ prev.index \in {0, 14, 16, 17}

OpensLineComment(k) == ByteAt(k) = Some(SLASH) /\ ByteAt(k + 1) = Some(SLASH)

\* The offset of the first line feed after the `//` at offset k, or the
\* buffer's length.
LineCommentEnd(k) == FirstByte(input, k + 3, LF) - 1

\* A token starts right after the line feed that ends the `//` comment at k.
TokenOnNextLine(k) ==
    /\ ByteAt(LineCommentEnd(k)) = Some(LF)
    /\ ByteAt(LineCommentEnd(k) + 1) # None
    /\ ByteAt(LineCommentEnd(k) + 1)[1] \notin {SPACE, TAB, CR, LF, SLASH}

\* What each call on `// comment`, LF, `var` returns.
LineCommentExampleTokens ==
    (input = LineCommentExample /\ op = "next_token") =>
        /\ ReturnedToken
        /\ prev.index = 0 =>
                /\ result.kind = Kind("Keyword", "Var")
                /\ result.lexeme = <<118, 97, 114>>
                /\ result.span.start = 11 /\ result.span.end = 14
                /\ result.span.line_start = 2 /\ result.span.column_start = 1
        /\ prev.index = 14 => ReturnedEof
        /\ prev.index \in {0, 14}

\* C17: a call that begins on `//` returns no token for the comment: the
\* comment runs to the next line feed or to the end of the input, the line
\* feed itself is left to be skipped as whitespace (and counted as a line),
\* so the token start lies at or after it with only trivia between and its
\* line and column are those of its offset; a token right after the line
\* feed is on the line after the comment's, in column 1; a comment that runs
\* to the end of the input gives Eof; `// comment`, LF, `var` gives Var at
\* line 2 column 1, then Eof.
C17_LineComment ==
    /\ (op = "next_token" /\ OpensLineComment(prev.index)) =>
            /\ token_start[1] >= LineCommentEnd(prev.index)
            /\ IsTriviaText(slice(LineCommentEnd(prev.index), token_start[1]))
            /\ token_start[2] = LineAt(token_start[1])
            /\ token_start[3] = ColumnAt(token_start[1])
            /\ ReturnedToken =>
                    /\ result.span.start = token_start[1]
                    /\ result.span.line_start = token_start[2]
                    /\ result.span.column_start = token_start[3]
            /\ LineCommentEnd(prev.index) = Len(input) => ReturnedEof
            /\ TokenOnNextLine(prev.index) =>
                    token_start = <<LineCommentEnd(prev.index) + 1, prev.line + 1, 1>>
    /\ LineCommentExampleTokens

\* C17 witness: on `// comment`, LF, `var` the first call returned the
\* keyword Var at line 2, column 1.
C17_Witness ==
    /\ input = LineCommentExample
    /\ prev.index = 0
    /\ ReturnedToken
    /\ result.kind = Kind("Keyword", "Var")
    /\ result.span.line_start = 2 /\ result.span.column_start = 1

-----------------------------------------------------------------------------
\* Bytes without a meaning

\* The bytes that are not whitespace and start no token: the control bytes
\* other than tab, LF and CR, then `#` `$` `@` backslash and the backquote,
\* DEL, and every byte from 0x80.
NoMeaning ==
    (0..8) \cup {11, 12} \cup (14..31) \cup {35, 36, 64, BACKSLASH, 96}
        \cup (127..255)

\* The bytes some arm of next_token takes: quotes, letters and underscore,
\* digits, delimiters, `:` and operator bytes.
TokenBytes ==
    {SQUOTE, DQUOTE} \cup IsIdentStart \cup IsDigit \cup DelimiterBytes
        \cup {COLON} \cup OperatorBytes

\* C18: when the first byte after the trivia is neither whitespace nor the
\* first byte of a quote, identifier, number, delimiter, `:` or operator
\* (these are the control bytes, `#`, `$`, `@`, backslash, the backquote, DEL
\* and every byte from 0x80), next_token returns UnexpectedCharacter with
\* that byte as its character and the byte's line and column.
C18_UnexpectedCharacter ==
    /\ NoMeaning = AllBytes \ (TokenBytes \cup IsWhitespace)
    /\ \A b \in AllBytes \ TokenBytes :
            TokenStartsOn(b) =>
                /\ result = LexError("UnexpectedCharacter", <<b>>,
                                     LineAt(token_start[1]),
                                     ColumnAt(token_start[1]))
                /\ b \in NoMeaning

\* C18 witness: the byte 0xFF on the second line was reported as
\* UnexpectedCharacter at line 2, column 1.
C18_Witness ==
    /\ input = <<LF, 255>>
    /\ TokenStartsOn(255)
    /\ result = LexError("UnexpectedCharacter", <<255>>, 2, 1)

-----------------------------------------------------------------------------
\* Scoping and pointer access

\* The call returned a token of this kind and lexeme, starting on the token
\* start and ending where the cursor is.
ReturnedLexeme(kind, lexeme) ==
    /\ ReturnedToken
    /\ result.kind = kind /\ result.lexeme = lexeme
    /\ result.span.start = token_start[1]
    /\ result.span.end = token_start[1] + Len(lexeme)
    /\ index = result.span.end

\* The call began at offset k and returned the identifier with these bytes.
ReturnedIdentifierAt(k, bytes) ==
    /\ ReturnedToken
    /\ result.kind.name = "Identifier" /\ result.lexeme = bytes
    /\ result.span.start = k /\ result.span.end = k + Len(bytes)

\* What each call on `x::y->z` returns, by the offset it began at.
ScopeExampleTokens ==
    (input = ScopeExample /\ op = "next_token") =>
        /\ prev.index = 0 => ReturnedIdentifierAt(0, <<120>>)
        /\ prev.index = 1 =>
                /\ ReturnedLexeme(Kind("SpecialOperator", "ScopingOperator"),
                                  <<COLON, COLON>>)
                /\ result.span.start = 1
        /\ prev.index = 3 => ReturnedIdentifierAt(3, <<121>>)
        /\ prev.index = 4 =>
                /\ ReturnedLexeme(Kind("SpecialOperator", "PointerAccess"),
                                  <<MINUS, GREATER>>)
                /\ result.span.start = 4
        /\ prev.index = 6 => ReturnedIdentifierAt(6, <<122>>)
        /\ prev.index = 7 => ReturnedEof
        /\ prev.index \in {0, 1, 3, 4, 6, 7}

-----------------------------------------------------------------------------
\* The example program

\* The call began at offset k and returned a token of this kind over
\* buffer[from..to], with that slice as its lexeme.
ReturnedAt(k, from, to, kind) ==
    prev.index = k =>
        /\ ReturnedToken
        /\ result.kind = kind
        /\ result.span.start = from /\ result.span.end = to
        /\ result.lexeme = slice(from, to)

\* What each call on `func main(): u32 { return 2320u; }` returns, by the
\* offset it began at; u32_kind is what is said of the token for `u32`.
ProgramTokens(u32_kind) ==
    (input = ProgramExample /\ op = "next_token") =>
        /\ ReturnedAt(0, 0, 4, Kind("Keyword", "Func"))
        /\ ReturnedAt(4, 5, 9,
                      KindV("Identifier", "Identifier", <<109, 97, 105, 110>>))
        /\ ReturnedAt(9, 9, 10, Kind("Delimiter", "LeftParen"))
        /\ ReturnedAt(10, 10, 11, Kind("Delimiter", "RightParen"))
        /\ ReturnedAt(11, 11, 12, Kind("Delimiter", "Colon"))
        /\ prev.index = 12 =>
                /\ ReturnedToken
                /\ result.span.start = 13 /\ result.span.end = 16
                /\ result.lexeme = <<117, 51, 50>>
                /\ u32_kind
        /\ ReturnedAt(16, 17, 18, Kind("Delimiter", "LeftBrace"))
        /\ ReturnedAt(18, 19, 25, Kind("Keyword", "Return"))
        /\ ReturnedAt(25, 26, 31,
                      KindV("Literal", "UnsignedIntLiteral", <<50, 51, 50, 48>>))
        /\ ReturnedAt(31, 31, 32, Kind("Delimiter", "Semicolon"))
        /\ ReturnedAt(32, 33, 34, Kind("Delimiter", "RightBrace"))
        /\ prev.index = 34 => ReturnedEof
        /\ prev.index \in {0, 4, 9, 10, 11, 12, 16, 18, 25, 31, 32, 34}

\* The token returned is the identifier that carries its own lexeme.
ReturnedIdentifier ==
    result.kind = KindV("Identifier", "Identifier", result.lexeme)

-----------------------------------------------------------------------------
\* Cursor operations

\* The last step was this cursor operation.
Called(o) == pc = "stream" /\ op = o

\* The line feeds among the bytes at offsets a .. b-1.
FeedsIn(a, b) == {j \in (a + 1)..b : input[j] = LF}

\* The cursor is at offset k, on the line and column that consuming the
\* bytes prev.index .. k-1 one by one leads to: a line more for each line
\* feed, the column back to 1 after a line feed and one more for any other
\* byte.
MovedTo(k) ==
    /\ index = k
    /\ line = prev.line + Cardinality(FeedsIn(prev.index, k))
    /\ column = IF FeedsIn(prev.index, k) = {}
                THEN prev.column + (k - prev.index)
                ELSE k - (CHOOSE j \in FeedsIn(prev.index, k) :
                              \A i \in FeedsIn(prev.index, k) : i <= j) + 1

\* The cursor is where it was before the call.
Unmoved == index = prev.index /\ line = prev.line /\ column = prev.column

\* C21: match_byte(expected) returns true and consumes exactly one byte,
\* with advance's line and column update, when the byte under the cursor is
\* expected; when it is another byte or the cursor is at the end of the
\* input it returns false and leaves index, line and column as they were.
C21_MatchByte ==
    Called("match_byte") =>
        IF ByteAt(prev.index) = Some(arg[1])
        THEN ret = TRUE /\ MovedTo(prev.index + 1)
        ELSE ret = FALSE /\ Unmoved

\* C21 witness: match_byte(LF) matched a line feed after the first byte and
\* moved to column 1 of the next line.
C21_Witness ==
    /\ Called("match_byte") /\ arg = <<LF>>
    /\ prev.index >= 1 /\ prev.column >= 2
    /\ ret = TRUE
    /\ index = prev.index + 1 /\ line = prev.line + 1 /\ column = 1

\* C22: peek_n(n) returns the byte at index + n when index + n is below the
\* buffer's length and none otherwise, the sum taken in the integers: an n
\* so large that index + n exceeds the machine word gives none, not the
\* byte at the wrapped index; the cursor does not move.
C22_PeekN ==
    Called("peek_n") =>
        /\ ret = IF prev.index + arg[1] < Len(input)
                 THEN Some(input[prev.index + arg[1] + 1])
                 ELSE None
        /\ Unmoved

\* C22 witness: peek_n(WordMax) from an index of 1 or more, where the
\* wrapped sum index - 1 is inside the buffer, returned none.
C22_Witness ==
    /\ Called("peek_n") /\ arg = <<WordMax>>
    /\ prev.index >= 1
    /\ (prev.index + WordMax) % (WordMax + 1) < Len(input)
    /\ ret = None

\* The stream after n advance calls from stream state s.
RECURSIVE AdvanceTimes(_, _)
AdvanceTimes(s, n) == IF n = 0 THEN s ELSE AdvanceTimes(advance(s).s, n - 1)

\* The smaller of two numbers.
Min(a, b) == IF a <= b THEN a ELSE b

\* C23: advance_n(n) ends where n successive advance calls end: index is
\* the smaller of index + n and the buffer's length, and line and column are
\* those that consuming these bytes one by one gives, a line feed among them
\* starting a new line at column 1.
C23_AdvanceN ==
    Called("advance_n") =>
        /\ Cur = AdvanceTimes(prev, arg[1])
        /\ MovedTo(Min(prev.index + arg[1], Len(input)))

\* C23 witness: advance_n(2) consumed a line feed and then another byte,
\* ending on the next line in column 2.
C23_Witness ==
    /\ Called("advance_n") /\ arg = <<2>>
    /\ ByteAt(prev.index) = Some(LF) /\ ByteAt(prev.index + 1) = Some(LOWER_A)
    /\ index = prev.index + 2 /\ line = prev.line + 1 /\ column = 2

\* C24: consume_while(p) returns (start, end) with start the index before
\* the call and end the index after it; every byte of buffer[start..end]
\* satisfies p and the byte at end, if there is one, does not; when the first
\* byte fails p or the cursor is at the end of the input, start = end and
\* index, line and column are unchanged.
C24_ConsumeWhile ==
    Called("consume_while") =>
        /\ ret = <<prev.index, index>>
        /\ prev.index <= index
        /\ \A j \in (prev.index + 1)..index : input[j] \in arg[1]
        /\ index < Len(input) => input[index + 1] \notin arg[1]
        /\ MovedTo(index)
        /\ (ByteAt(prev.index) = None \/ ByteAt(prev.index)[1] \notin arg[1]) =>
                ret[1] = ret[2] /\ Unmoved

\* C24 witness: consume_while(whitespace) consumed two bytes, a line feed
\* among them, and stopped before a byte that is not whitespace.
C24_Witness ==
    /\ Called("consume_while") /\ arg = <<IsWhitespace>>
    /\ ret = <<prev.index, prev.index + 2>>
    /\ line > prev.line
    /\ index < Len(input)

\* The call was made with the cursor at the end of the input.
CalledAtEnd(o) == Called(o) /\ prev.index = Len(input)

\* C25: with the cursor at the end of the input, advance returns none,
\* match_byte returns false, and advance_n, consume_while and skip_while
\* consume nothing, each leaving index, line and column unchanged; peek,
\* peek_n and the position snapshot leave them unchanged in every state, and
\* the snapshot is (index, line, column).
C25_EndOfInput ==
    /\ CalledAtEnd("advance") => ret = None /\ Unmoved
    /\ CalledAtEnd("match_byte") => ret = FALSE /\ Unmoved
    /\ CalledAtEnd("advance_n") => Unmoved
    /\ CalledAtEnd("consume_while") =>
            ret = <<Len(input), Len(input)>> /\ Unmoved
    /\ CalledAtEnd("skip_while") => Unmoved
    /\ CalledAtEnd("peek") => ret = None
    /\ CalledAtEnd("peek_n") => ret = None
    /\ Called("peek") => Unmoved
    /\ Called("peek_n") => Unmoved
    /\ Called("current_position") =>
            ret = <<prev.index, prev.line, prev.column>> /\ Unmoved

\* C25 witness: advance was called at the end of a buffer that ends a
\* second line, returned none and left the cursor where it was.
C25_Witness ==
    /\ CalledAtEnd("advance")
    /\ ret = None
    /\ line = 2 /\ column >= 2
    /\ Unmoved

-----------------------------------------------------------------------------
\* Character literals

\* The content unit of the character literal opened at offset t: one byte,
\* or a backslash and an escape byte.
HasCharUnit(t) ==
    /\ ByteAt(t + 1) # None
    /\ ByteAt(t + 1) = Some(BACKSLASH) =>
            \E b \in EscapeBytes(SQUOTE) : ByteAt(t + 2) = Some(b)

\* The number of bytes of that unit.
CharUnitLen(t) == IF ByteAt(t + 1) = Some(BACKSLASH) THEN 2 ELSE 1

\* The offset just past the unit, where the closing `'` must be.
CharClose(t) == t + 1 + CharUnitLen(t)

\* C26: a token that starts on `'` and holds one content unit (one byte, or
\* one escape sequence) is a CharacterLiteral whose span runs from the
\* opening quote through the closing quote when a `'` follows the unit; when
\* another byte or the end of input follows it (as in `'ab'`), and when the
\* input ends right after the opening quote, next_token returns
\* UnterminatedString with the line and column of the opening quote.
C26_CharacterLiteral ==
    /\ (LiteralCall(SQUOTE) /\ HasCharUnit(token_start[1])) =>
            IF ByteAt(CharClose(token_start[1])) = Some(SQUOTE)
            THEN /\ ReturnedToken
                 /\ result.kind.name = "CharacterLiteral"
                 /\ result.span.start = token_start[1]
                 /\ result.span.end = CharClose(token_start[1]) + 1
                 /\ index = result.span.end
            ELSE ReturnedError("UnterminatedString") /\ ErrorAt(token_start[1])
    /\ (LiteralCall(SQUOTE) /\ ByteAt(token_start[1] + 1) = None) =>
            ReturnedError("UnterminatedString") /\ ErrorAt(token_start[1])

\* C26 witness: `'aa'`, opened on the second line, was reported as
\* UnterminatedString at line 2, column 1.
C26_Witness ==
    /\ input = <<LF, SQUOTE, LOWER_A, LOWER_A, SQUOTE>>
    /\ LiteralCall(SQUOTE)
    /\ result = LexError("UnterminatedString", <<>>, 2, 1)

-----------------------------------------------------------------------------
\* Identifiers and keywords

\* The byte at offset k is an ASCII letter, a digit or an underscore.
IsWordByteAt(k) ==
    k < Len(input) /\
    \/ input[k + 1] \in 97..122
    \/ input[k + 1] \in 65..90
    \/ input[k + 1] \in 48..57
    \/ input[k + 1] = 95

\* The offset just past the run of such bytes that starts at offset k.
RECURSIVE WordRunEnd(_)
WordRunEnd(k) == IF IsWordByteAt(k) THEN WordRunEnd(k + 1) ELSE k

\* The last call was next_token and its token starts on a letter or an
\* underscore.
WordCall ==
    /\ op = "next_token"
    /\ IsWordByteAt(token_start[1])
    /\ input[token_start[1] + 1] \notin 48..57

\* The whole run of the token, as bytes.
WordRun == slice(token_start[1], WordRunEnd(token_start[1]))

\* C27: a token that starts on a letter or an underscore is never an error:
\* it spans the whole maximal run of ASCII letters, digits and underscores,
\* and it is a keyword exactly when the entire run, byte for byte, is a word
\* of the keyword table, and otherwise the Identifier carrying the run; so
\* `variable`, `if_`, `return1`, `If` and `RETURN` are one Identifier each
\* while `if` is the keyword If.
C27_WholeWord ==
    /\ WordCall =>
            /\ ReturnedToken
            /\ result.span.start = token_start[1]
            /\ result.span.end = WordRunEnd(token_start[1])
            /\ index = result.span.end
            /\ result.lexeme = WordRun
            /\ IF \E w \in KeywordTable : w[1] = WordRun
               THEN \E w \in KeywordTable :
                        w[1] = WordRun /\ result.kind = Kind("Keyword", w[2])
               ELSE result.kind = KindV("Identifier", "Identifier", WordRun)
    /\ (WordCall /\ (input \in NearKeywords \/ input = <<105, 102, 95>>)) =>
            /\ result.kind = KindV("Identifier", "Identifier", input)
            /\ index = Len(input)
    /\ (WordCall /\ input = <<105, 102>>) => result.kind = Kind("Keyword", "If")

\* C27 witness: `return1` was returned as one Identifier token of 7 bytes.
C27_Witness ==
    /\ input = <<114, 101, 116, 117, 114, 110, 49>>
    /\ WordCall
    /\ ReturnedToken
    /\ result.kind = KindV("Identifier", "Identifier", input)
    /\ result.span.start = 0 /\ result.span.end = 7

-----------------------------------------------------------------------------
\* Escape sequences

\* The character an escape byte stands for: n, t, r and 0 are LF, TAB, CR
\* and NUL, a backslash or a quote is itself.
EscapeValue(b) ==
    CASE b = 110 -> 10
      [] b = 116 -> 9
      [] b = 114 -> 13
      [] b = 48 -> 0
      [] OTHER -> b

\* The offset just past the `"` that closes the string content scanned from
\* offset k, an escape taking two bytes.
RECURSIVE StringEnd(_)
StringEnd(k) ==
    IF k >= Len(input) THEN Len(input)
    ELSE IF input[k + 1] = DQUOTE THEN k + 1
    ELSE IF input[k + 1] = BACKSLASH THEN StringEnd(k + 2)
    ELSE StringEnd(k + 1)

\* The characters the string content scanned from offset k decodes to.
RECURSIVE StringValue(_)
StringValue(k) ==
    IF k >= Len(input) \/ input[k + 1] = DQUOTE THEN <<>>
    ELSE IF input[k + 1] = BACKSLASH
         THEN IF k + 1 < Len(input)
              THEN <<EscapeValue(input[k + 2])>> \o StringValue(k + 2)
              ELSE <<>>
    ELSE <<input[k + 1]>> \o StringValue(k + 1)

\* A closed string literal with valid escapes starts at the token start.
GoodString ==
    /\ LiteralCall(DQUOTE)
    /\ ~Unclosed(token_start[1] + 1)
    /\ EscapesValid(token_start[1] + 1)

\* A character literal `'\b'` with an escape byte b starts at the token start.
GoodCharEscape ==
    /\ LiteralCall(SQUOTE)
    /\ ByteAt(token_start[1] + 1) = Some(BACKSLASH)
    /\ \E b \in EscapeBytes(SQUOTE) : ByteAt(token_start[1] + 2) = Some(b)
    /\ ByteAt(token_start[1] + 3) = Some(SQUOTE)

\* The token starts on quote q, and a backslash and byte b follow it.
EscapeFirst(q, b) ==
    /\ LiteralCall(q)
    /\ ByteAt(token_start[1] + 1) = Some(BACKSLASH)
    /\ ByteAt(token_start[1] + 2) = Some(b)

\* C28: after a backslash, n, t, r, 0, backslash and the literal's own quote
\* decode to LF, TAB, CR, NUL, backslash and that quote, each escape taking
\* two bytes: a closed string literal with valid escapes is one StringLiteral
\* whose value is its content so decoded and whose span ends after the first
\* `"` that is not escaped; `'\b'` is the CharacterLiteral of b's character,
\* four bytes long; `\'` in a string and `\"` in a character literal are
\* InvalidEscape; `"a\"b"` is one string token, decoding to a"b.
C28_EscapeDecoding ==
    /\ GoodString =>
            /\ ReturnedToken
            /\ result.kind = KindV("Literal", "StringLiteral",
                                   StringValue(token_start[1] + 1))
            /\ result.span.start = token_start[1]
            /\ result.span.end = StringEnd(token_start[1] + 1)
            /\ index = result.span.end
    /\ GoodCharEscape =>
            /\ ReturnedToken
            /\ result.kind = KindV("Literal", "CharacterLiteral",
                                   EscapeValue(input[token_start[1] + 3]))
            /\ result.span.start = token_start[1]
            /\ result.span.end = token_start[1] + 4
    /\ EscapeFirst(DQUOTE, SQUOTE) => ReturnedError("InvalidEscape")
    /\ EscapeFirst(SQUOTE, DQUOTE) => ReturnedError("InvalidEscape")
    /\ (input = EscapedQuoteExample /\ op = "next_token") =>
            /\ prev.index = 0 =>
                    /\ ReturnedToken
                    /\ result.kind = KindV("Literal", "StringLiteral", <<97, 34, 98>>)
                    /\ result.span.start = 0 /\ result.span.end = 6
            /\ prev.index = 6 => ReturnedEof
            /\ prev.index \in {0, 6}

\* C28 witness: `"a\"b"` was returned as one StringLiteral with the value
\* a"b over all six bytes.
C28_Witness ==
    /\ input = EscapedQuoteExample
    /\ GoodString
    /\ ReturnedToken
    /\ result.kind.value = <<97, 34, 98>>
    /\ result.span.end = 6

-----------------------------------------------------------------------------
\* The slash

\* The `/` at offset k opens a comment: a `/` or a `*` follows it.
SlashOpensComment(k) ==
    ByteAt(k + 1) = Some(SLASH) \/ ByteAt(k + 1) = Some(STAR)

\* The call returned the token a `/` at offset k that opens no comment
\* stands for: DivideAssign over two bytes when `=` follows, Slash over one
\* byte otherwise.
SlashTokenAt(k) ==
    /\ ReturnedToken
    /\ result.span.start = k
    /\ IF ByteAt(k + 1) = Some(EQUALS)
       THEN /\ result.kind = Kind("AssignmentOperator", "DivideAssign")
            /\ result.span.end = k + 2 /\ index = k + 2
       ELSE /\ result.kind = Kind("ArithmeticOperator", "Slash")
            /\ result.span.end = k + 1 /\ index = k + 1

\* The offset of the first byte from k on that is not whitespace.
RECURSIVE AfterWhitespace(_)
AfterWhitespace(k) ==
    IF k < Len(input) /\ input[k + 1] \in {SPACE, TAB, CR, LF}
    THEN AfterWhitespace(k + 1)
    ELSE k

\* C29: a `/` that is followed by neither `/` nor `*` (by another byte, or
\* by the end of input) stops the trivia skip without being consumed: when
\* it is the first byte after the whitespace the call began on, the token
\* starts on it and is DivideAssign when `=` follows and Slash otherwise;
\* wherever a token starts on `/`, that `/` opens no comment and the token is
\* this one; and every Slash or DivideAssign token starts on a `/` that is
\* followed by neither `/` nor `*`.
C29_SlashOrComment ==
    /\ (op = "next_token"
            /\ ByteAt(AfterWhitespace(prev.index)) = Some(SLASH)
            /\ ~SlashOpensComment(AfterWhitespace(prev.index))) =>
                /\ token_start[1] = AfterWhitespace(prev.index)
                /\ SlashTokenAt(AfterWhitespace(prev.index))
    /\ TokenStartsOn(SLASH) =>
            /\ ~SlashOpensComment(token_start[1])
            /\ SlashTokenAt(token_start[1])
    /\ (ReturnedToken /\ result.kind.name \in {"Slash", "DivideAssign"}) =>
            /\ ByteAt(result.span.start) = Some(SLASH)
            /\ ~SlashOpensComment(result.span.start)

\* C29 witness: after a `//` comment and a line feed, `/=` was returned as
\* DivideAssign.
C29_Witness ==
    /\ input = <<SLASH, SLASH, LF, SLASH, EQUALS>>
    /\ prev.index = 0
    /\ ReturnedToken
    /\ result.kind = Kind("AssignmentOperator", "DivideAssign")
    /\ result.span.start = 3 /\ result.span.end = 5

-----------------------------------------------------------------------------
\* The loop over a lexer

\* The last step was a turn of the loop that yielded an item.
Yielded == op = "next" /\ ret # None

\* The last step was a turn of the loop that yielded nothing: the loop ended.
Ended == op = "next" /\ ret = None

\* The item yielded is the Eof token or an error.
YieldedLast ==
    Yielded /\ (ret[1].tag = "Err" \/ ret[1].kind.name = "Eof")

\* After a turn of the loop: an item that is a token starts at or after the
\* cursor the turn began on, with only trivia between, and is the result
\* recorded for the turn; the Eof token is yielded, with the cursor at the end
\* of the input; and when it is yielded by a loop that began on a fresh
\* lexer and met no error, the trivia and the lexemes yielded, in order, are
\* the whole buffer.
C30_State ==
    /\ Yielded => ret[1] = result
    /\ (Yielded /\ ret[1].tag = "Ok") =>
            /\ prev.index <= ret[1].span.start
            /\ IsTriviaText(slice(prev.index, ret[1].span.start))
            /\ ret[1].span.end = index
    /\ (Yielded /\ ret[1].tag = "Ok" /\ ret[1].kind.name = "Eof") =>
            /\ index = Len(input)
            /\ clean => consumed = input
    /\ Ended => Unmoved

\* From one turn of the loop to the next: after a token other than Eof the
\* loop goes on with the next item; after Eof, after an error, and after it
\* has ended, the loop yields nothing.
C30_Step ==
    op' = "next" =>
        /\ (Yielded /\ ~YieldedLast) => ret' # None
        /\ YieldedLast => ret' = None
        /\ Ended => ret' = None
        /\ op = "into_iter" => ret' # None

\* C30: the loop over a lexer yields each token in order, up to and
\* including the Eof token, and then ends; it ends right after yielding the
\* first error; nothing is yielded after Eof or after an error.
C30_Iteration == []C30_State /\ [][C30_Step]_vars

\* C30 witness: the loop ended after it yielded an error for a byte that two
\* more bytes follow.
C30_Witness ==
    /\ Ended
    /\ result.tag = "Err"
    /\ index + 2 <= Len(input)

-----------------------------------------------------------------------------
\* Lexemes of literals

\* The call returned a string or a character literal.
ReturnedQuoted ==
    ReturnedToken /\ result.kind.name \in {"StringLiteral", "CharacterLiteral"}

\* C31: the lexeme of a string or character literal token is the raw source
\* text buffer[span.start..span.end], with the quotes and the escape
\* sequences as written; the decoded value is in the token kind.
C31_RawLexeme ==
    ReturnedQuoted =>
        /\ result.lexeme = slice(result.span.start, result.span.end)
        /\ result.kind.name = "StringLiteral" =>
                result.kind.value = StringValue(result.span.start + 1)

-----------------------------------------------------------------------------
\* Exact positions

\* A cursor has been constructed (by itself, in a lexer or in a loop).
CursorExists == pc \notin {"input", "failed"}

\* C32: in every reachable state with a cursor, after tokens, after skipped
\* comments, after multi-line string literals and after a call that returned
\* an error, line is 1 plus the number of line feeds in buffer[0..index] and
\* column is 1 plus the number of bytes of buffer[0..index] after the last
\* line feed (index itself when it holds none).
C32_ExactPosition ==
    CursorExists =>
        /\ line = 1 + Cardinality({j \in 1..index : input[j] = LF})
        /\ column = 1 + Cardinality({j \in 1..index :
                                        \A i \in j..index : input[i] # LF})

\* C32 witness: a call returned an error inside a string literal that runs
\* over a line feed and left the cursor on line 2, past column 1.
C32_Witness ==
    /\ op = "next_token" /\ result.tag = "Err"
    /\ ByteAt(token_start[1]) = Some(DQUOTE)
    /\ token_start[2] = 1
    /\ line = 2 /\ column >= 2
    /\ index = Len(input)

-----------------------------------------------------------------------------
\* Termination

\* No step moves the cursor back.
C33_Step == index' >= index

\* After a call that returned a token other than Eof the cursor is further
\* than before the call; and the calls made until Eof or an error is
\* returned number at most the buffer's length plus one.
C33_State ==
    /\ (ReturnedToken /\ ~ReturnedEof) => index > prev.index
    /\ (Yielded /\ ret[1].tag = "Ok" /\ ret[1].kind.name # "Eof") =>
            index > prev.index
    /\ calls <= Len(input) + 1

\* C33: tokenization terminates: no operation decreases the cursor index,
\* every next_token call that returns a token other than Eof ends with the
\* index strictly greater than before the call, and on a buffer of length n
\* the loop `call next_token until Eof or an error` makes at most n + 1
\* calls.
C33_Termination == []C33_State /\ [][C33_Step]_vars

\* C33 witness: on a buffer of three one-byte tokens the loop has made its
\* fourth call, which returned Eof.
C33_Witness ==
    /\ Len(input) = 3
    /\ calls = 4
    /\ ReturnedEof
    /\ clean

-----------------------------------------------------------------------------
\* After UnexpectedCharacter

\* After a call that returned UnexpectedCharacter the cursor is on the byte
\* reported, which is the first byte after the trivia the call skipped.
C34_State ==
    ReturnedError("UnexpectedCharacter") =>
        /\ index = token_start[1]
        /\ ByteAt(index) = Some(result.text[1])
        /\ ErrorAt(index)
        /\ IsTriviaText(slice(prev.index, index))

\* A next_token call made after UnexpectedCharacter was returned returns the
\* same error and leaves the cursor where it was.
C34_Step ==
    (ReturnedError("UnexpectedCharacter") /\ op' = "next_token") =>
        /\ result' = result
        /\ index' = index /\ line' = line /\ column' = column

\* C34: UnexpectedCharacter does not consume the offending byte: after the
\* call the cursor index is that byte's offset, and every further next_token
\* call returns the identical error, with the same byte, line and column,
\* so Eof is never returned.
C34_ErrorRepeats == []C34_State /\ [][C34_Step]_vars

\* C34 witness: on a space and `@`, a second call, begun on the `@`
\* itself, returned the same UnexpectedCharacter at line 1, column 2.
C34_Witness ==
    /\ input = <<SPACE, 64>>
    /\ op = "next_token"
    /\ prev.index = 1 /\ index = 1
    /\ result = LexError("UnexpectedCharacter", <<64>>, 1, 2)

-----------------------------------------------------------------------------
\* Two quotes in a row

\* The token starts on `'` and the next byte is `'` too.
TwoQuotes == LiteralCall(SQUOTE) /\ ByteAt(token_start[1] + 1) = Some(SQUOTE)

\* C35: of two `'` in a row the second is the literal's content, not its
\* end: when a third `'` follows, next_token returns the CharacterLiteral of
\* the quote character over the three bytes; when another byte or the end of
\* input follows, it returns UnterminatedString at the opening quote, with
\* the cursor past the second quote.
C35_QuoteAsContent ==
    TwoQuotes =>
        IF ByteAt(token_start[1] + 2) = Some(SQUOTE)
        THEN /\ ReturnedToken
             /\ result.kind = KindV("Literal", "CharacterLiteral", 39)
             /\ result.span.start = token_start[1]
             /\ result.span.end = token_start[1] + 3
             /\ index = token_start[1] + 3
        ELSE /\ ReturnedError("UnterminatedString")
             /\ ErrorAt(token_start[1])
             /\ index = token_start[1] + 2

\* C35 witness: `''a` on the second line was reported as UnterminatedString
\* at line 2, column 1, with the cursor on the `a`.
C35_Witness ==
    /\ input = <<LF, SQUOTE, SQUOTE, LOWER_A>>
    /\ TwoQuotes
    /\ result = LexError("UnterminatedString", <<>>, 2, 1)
    /\ index = 3

-----------------------------------------------------------------------------
\* Literals and comments side by side

\* The offset where the whitespace and comments that start at offset k end:
\* a `//` comment runs to the line feed, a `/*` comment through the first
\* `*/` or to the end of the buffer, whatever bytes they hold.
RECURSIVE TriviaEnd(_)
TriviaEnd(k) ==
    IF k >= Len(input) THEN Len(input)
    ELSE IF input[k + 1] \in {SPACE, TAB, CR, LF} THEN TriviaEnd(k + 1)
    ELSE IF OpensLineComment(k) THEN TriviaEnd(LineCommentEnd(k))
    ELSE IF OpensComment(k)
         THEN IF CommentCloses(k) THEN TriviaEnd(CommentEnd(k)) ELSE Len(input)
    ELSE k

\* Some offset in from..to - 1 holds one of these bytes.
Holds(from, to, bytes) == \E k \in from..(to - 1) : ByteAt(k) # None /\ ByteAt(k)[1] \in bytes

\* The string literal at the token start has a `/` in its content.
MarkerInString ==
    GoodString /\ Holds(token_start[1] + 1, StringEnd(token_start[1] + 1) - 1, {SLASH})

\* The comments before the token start hold a quote.
QuoteInComment ==
    /\ op = "next_token"
    /\ Holds(prev.index, TriviaEnd(prev.index), {DQUOTE, SQUOTE})

\* C36: a closed string literal is one StringLiteral token up to its closing
\* quote, with every `/` and `*` of its content in its value, and a call
\* reports UnterminatedString or InvalidEscape, or returns a string or a
\* character literal, only when the byte where the whitespace and comments
\* end is a quote: a quote inside a comment starts nothing, and comments
\* that run to the end of the buffer give Eof or UnterminatedBlockComment.
C36_NoInterference ==
    /\ GoodString =>
            /\ ReturnedToken
            /\ result.kind = KindV("Literal", "StringLiteral", StringValue(token_start[1] + 1))
            /\ result.span.start = token_start[1]
            /\ result.span.end = StringEnd(token_start[1] + 1)
            /\ index = result.span.end
    /\ op = "next_token" =>
            /\ (ReturnedError("UnterminatedString") \/ ReturnedError("InvalidEscape")
                    \/ ReturnedQuoted)
                => /\ token_start[1] = TriviaEnd(prev.index)
                   /\ ByteAt(token_start[1]) \in {Some(DQUOTE), Some(SQUOTE)}
            /\ TriviaEnd(prev.index) = Len(input)
                => \/ ReturnedEof
                   \/ ReturnedError("UnterminatedBlockComment")

\* C36 witness: `"a // b"` came back as one StringLiteral of the six
\* characters between the quotes.
C36_Witness ==
    /\ input = MarkerInStringExample
    /\ MarkerInString
    /\ result.kind = KindV("Literal", "StringLiteral", <<97, 32, 47, 47, 32, 98>>)
    /\ index = 8

\* A call skipped `// "` and the line feed and returned the identifier `a`.
QuoteInCommentSkipped ==
    /\ input = <<47, 47, 32, 34, 10, 97>>
    /\ QuoteInComment
    /\ ReturnedIdentifierAt(5, <<97>>)

-----------------------------------------------------------------------------
\* Lines and columns of spans

\* The token's bytes hold a line feed.
SpansLineFeed ==
    \E k \in (result.span.start + 1)..result.span.end : input[k] = LF

\* C37: the span of every token returned has (line_start, column_start) the
\* line and column of offset span.start and (line_end, column_end) those of
\* offset span.end; a token whose bytes hold no line feed has
\* line_end = line_start and column_end - column_start = span.end -
\* span.start; and only string and character literals have
\* line_end > line_start.
C37_SpanPositions ==
    ReturnedToken =>
        /\ result.span.line_start = LineAt(result.span.start)
        /\ result.span.column_start = ColumnAt(result.span.start)
        /\ result.span.line_end = LineAt(result.span.end)
        /\ result.span.column_end = ColumnAt(result.span.end)
        /\ ~SpansLineFeed =>
                /\ result.span.line_end = result.span.line_start
                /\ result.span.column_end - result.span.column_start
                        = result.span.end - result.span.start
        /\ result.span.line_end > result.span.line_start =>
                result.kind.name \in {"StringLiteral", "CharacterLiteral"}

\* C37 witness: on the second line, a string literal `"a`, line feed, `"`
\* was returned with a span from line 2, column 1 to line 3, column 2.
C37_Witness ==
    /\ input = <<LF, DQUOTE, LOWER_A, LF, DQUOTE>>
    /\ ReturnedToken
    /\ result.kind.name = "StringLiteral"
    /\ SpansLineFeed
    /\ result.span = [start |-> 1, end |-> 5, line_start |-> 2, column_start |-> 1,
                      line_end |-> 3, column_end |-> 2]

-----------------------------------------------------------------------------
\* Length of a decoded string

\* The number of backslashes that start an escape among the bytes at
\* offsets k .. to - 1, the byte after such a backslash being its second byte.
RECURSIVE EscapeCount(_, _)
EscapeCount(k, to) ==
    IF k >= to THEN 0
    ELSE IF input[k + 1] = BACKSLASH THEN 1 + EscapeCount(k + 2, to)
    ELSE EscapeCount(k + 1, to)

\* The call returned a string literal.
ReturnedString == ReturnedToken /\ result.kind.name = "StringLiteral"

\* C38: the decoded value of every StringLiteral token has as many
\* characters as the literal has bytes between its quotes, less one for
\* each escape sequence: a raw byte, a line feed or a byte >= 0x80 included,
\* gives one character, and a two-byte escape gives one.
C38_DecodedLength ==
    ReturnedString =>
        Len(result.kind.value)
            = (result.span.end - result.span.start - 2)
                - EscapeCount(result.span.start + 1, result.span.end - 1)

\* C38 witness: the literal of 0xFF, a line feed, `\n` and `a` decoded to
\* four characters, from five bytes and one escape.
C38_Witness ==
    /\ input = <<34, 255, 10, 92, 110, 97, 34>>
    /\ ReturnedString
    /\ result.span.end - result.span.start = 7
    /\ EscapeCount(1, 6) = 1
    /\ result.kind.value = <<255, 10, 10, 97>>

-----------------------------------------------------------------------------
\* Where a number ends

\* The digit run is followed by `.` and a digit.
HasFraction == ByteAt(RunEnd) = Some(DOT) /\ IsDigitAt(RunEnd + 1)

\* The offset just past the digits and the fraction, if there is one.
FractionEnd == IF HasFraction THEN DigitRunEnd(RunEnd + 1) ELSE RunEnd

\* The offset just past the number: its digits, its one fraction, or its
\* `u` when it has no fraction.
NumEnd ==
    IF ~HasFraction /\ ByteAt(RunEnd) = Some(LOWER_U) THEN RunEnd + 1 ELSE FractionEnd

\* The number has no fraction and its digits exceed the range of its type.
OverRange ==
    /\ ~HasFraction
    /\ IF ByteAt(RunEnd) = Some(LOWER_U)
       THEN ~numeral_le(RunValue, U64_MAX)
       ELSE ~numeral_le(RunValue, I64_MAX)

\* The byte at offset k is a letter or `_`.
IsWordStartAt(k) == IsWordByteAt(k) /\ ~IsDigitAt(k)

\* How many bytes of the token returned are b.
CountIn(b) ==
    Cardinality({k \in (result.span.start + 1)..result.span.end : input[k] = b})

\* What a call on a number does whatever follows the number: the cursor
\* ends just past the number, a token returned spans the number and holds
\* at most one `.` and one `u`, and a number followed by a second fraction
\* is the FloatLiteral of the first.
ScanStops ==
    /\ index = NumEnd
    /\ ReturnedToken =>
            /\ result.span.start = RunStart /\ result.span.end = NumEnd
            /\ result.kind.name \in {"IntLiteral", "UnsignedIntLiteral", "FloatLiteral"}
            /\ CountIn(DOT) <= 1 /\ CountIn(LOWER_U) <= 1
    /\ (HasFraction /\ ByteAt(NumEnd) = Some(DOT)) =>
            /\ ReturnedToken
            /\ result.kind.name = "FloatLiteral"

\* What each call on `123abc` and on `1.2.3` returns, by the offset it began at.
ScanStopExampleTokens ==
    /\ (input = DigitsThenWordExample /\ op = "next_token") =>
            /\ ReturnedAt(0, 0, 3, KindV("Literal", "IntLiteral", <<49, 50, 51>>))
            /\ ReturnedAt(3, 3, 6, KindV("Identifier", "Identifier", <<97, 98, 99>>))
    /\ (input = TwoFractionsExample /\ op = "next_token") =>
            /\ ReturnedAt(0, 0, 3, KindV("Literal", "FloatLiteral", <<(<<49>>), (<<50>>)>>))
            /\ ReturnedAt(3, 3, 4, Kind("Delimiter", "Dot"))
            /\ ReturnedAt(4, 4, 5, KindV("Literal", "IntLiteral", <<51>>))

C39_State ==
    /\ ScanStopExampleTokens
    /\ NumberCall =>
            /\ ScanStops
            /\ ReturnedInvalidNumber => (OverRange \/ FloatThenU)
            /\ (~HasFraction /\ IsWordStartAt(RunEnd) /\ ByteAt(RunEnd) # Some(LOWER_U)
                    /\ ~OverRange)
                => IntOverDigits

\* The call after a number token: a word at the number's end is returned as
\* the identifier or keyword over the whole word, a `.` as Dot.
C39_Step ==
    (NumberCall /\ ReturnedToken /\ op' = "next_token") =>
        /\ IsWordStartAt(NumEnd) =>
                /\ result'.tag = "Ok"
                /\ result'.kind.cat \in {"Identifier", "Keyword"}
                /\ result'.span.start = NumEnd
                /\ result'.span.end = WordRunEnd(NumEnd)
                /\ result'.lexeme = slice(NumEnd, WordRunEnd(NumEnd))
        /\ ByteAt(NumEnd) = Some(DOT) =>
                /\ result'.tag = "Ok"
                /\ result'.kind = Kind("Delimiter", "Dot")
                /\ result'.span.start = NumEnd /\ result'.span.end = NumEnd + 1

=============================================================================
